---- MODULE Spec2Model ----
(***************************************************************************)
(* A model of the cell_memory crate (tye-exe/Memory):                      *)
(*   - Da / Oda, the single-slot cells of src/data_access/mod.rs           *)
(*   - locking_mutate!, the multi-cell transform of                        *)
(*     src/data_access/locking_mutate/mod.rs                               *)
(*   - CellVec of src/vec.rs and the naive CellVec of                      *)
(*     src/data_access/detailed_tests.rs                                   *)
(*   - CellHashMap of src/hash.rs                                          *)
(*                                                                         *)
(* A cell is an Arc<Mutex<Arc<Value>>>: `cur` is the content of each       *)
(* mutex, an Arc is an address into `heap`, and Arc::new appends to the    *)
(* heap.  A step that locks a mutex, touches only the guarded content and  *)
(* unlocks again is one action, enabled only while no guard of             *)
(* locking_mutate! holds that mutex.                                       *)
(***************************************************************************)
EXTENDS Integers, Sequences, FiniteSets, TLC

VARIABLES
    heap,      \* Seq(Value): every Arc<Value> allocated so far, by address
    cur,       \* [Slots -> Option(address)]: the content of each Mutex
    mutex,     \* [Slots -> Free or the thread whose MutexGuard is alive]
    pc,        \* [Threads -> position of the thread inside its operation]
    loc,       \* [Threads -> the locals of the operation in progress]
    ops,       \* number of operations started so far, by any thread
    res,       \* [Threads -> what the last completed operation returned]
    reg,       \* history: per cell, the last write that took effect
    snaps,     \* history: every snapshot handed out, with its value then
    lmlog,     \* history: the inputs of every locking_mutate! call, in order
    vlen,      \* CellVec.len: the usize inside the Da
    vcap,      \* CellVec.capacity: the usize inside the Da
    varr,      \* CellVec.array: the Box<[Oda<Value>]> inside the Da, as slot ids
    odas,      \* Seq(Option(Value)): the content of every Oda<Value> ever created
    vlock,     \* [{"len", "cap", "arr"} -> Free or the thread whose guard is alive]
    vpoison,   \* [{"len", "cap", "arr"} -> whether the Mutex is poisoned]
    buckets,   \* CellHashMap.array: per position set so far, the content of its Oda
    entries,   \* Seq(CellEntry): every CellEntry stored so far, by address
    puts       \* history: per key, the value of the last put that returned

cellVars == <<heap, cur, mutex, reg, snaps, lmlog>>
vecVars == <<vlen, vcap, varr, odas, vlock, vpoison>>
hashVars == <<buckets, entries, puts>>
vars == <<heap, cur, mutex, pc, loc, ops, res, reg, snaps, lmlog,
          vlen, vcap, varr, odas, vlock, vpoison, buckets, entries, puts>>

(***************************************************************************)
(* Bounds of the model.                                                    *)
(***************************************************************************)
NThreads == 2
MaxOps == 3
MaxVal == 1

Threads == 1..NThreads
Values == 0..MaxVal

(***************************************************************************)
(* Option<T> and Arc<T>.                                                   *)
(***************************************************************************)
None == <<>>
Some(x) == <<x>>
IsSome(o) == o # None

Free == 0

\* A write into the allocation the cell already points to
ArcInPlace(h, old, v) ==
    IF IsSome(old) THEN [heap |-> [h EXCEPT ![old[1]] = v], ref |-> old[1]]
    ELSE [heap |-> Append(h, v), ref |-> Len(h) + 1]

\* Arc::new(v): a fresh allocation, never an existing address.
ArcNew(h, old, v) == [heap |-> Append(h, v), ref |-> Len(h) + 1]

\* *arc, for an Option<Arc<Value>>.
ValOf(h, o) == IF IsSome(o) THEN Some(h[o[1]]) ELSE None

(***************************************************************************)
(* The cells: cell 1 is a Da<Value>, cell 2 an Oda<Value>.                 *)
(***************************************************************************)
DaCells == {1}
OdaCells == {2}
CellIds == DaCells \cup OdaCells
Slots == 1..(2 * (NThreads + 1))

\* A clone with a Mutex of its own
HandleCopy(t, c) == c + 2 * t

\* Clone for Da / Oda: the clone held by thread t shares the Arc<Mutex<..>>.
Handle(t, c) == c

\* A lock that is taken whoever holds the Mutex
UnlockedAlways(s) == TRUE

\* self.current_ref.lock().unwrap() returns once no guard is alive.
Unlocked(s) == mutex[s] = Free

\* A function that returns the value it is given
FuncKeep(v) == v

\* The user function of mutate and of locking_mutate!: d.num += 1.
Func(v) == v + 1

IdleLoc == [c |-> 0, old |-> None, vals |-> <<>>, outs |-> <<>>, k |-> 0, cells |-> <<>>,
            inner |-> None, called |-> {}]
NoRes == [op |-> "none", c |-> 0, ret |-> None, lin |-> None, at |-> 0, rd |-> 0,
          pc0 |-> 0, pret |-> None, arg |-> None]

CanStart(t) == pc[t] = "idle" /\ ops < MaxOps

Snap(c, o) == IF IsSome(o) THEN {[c |-> c, arc |-> o[1], val |-> heap[o[1]]]} ELSE {}

Wrote(c, o, h) == [reg EXCEPT ![c] = [val |-> ValOf(h, o), n |-> @.n + 1]]

(***************************************************************************)
(* Da::get / Oda::get (mod.rs 53-55, 162-164).                             *)
(***************************************************************************)
Get(t, c) ==
    /\ UNCHANGED <<vecVars, hashVars>>
    /\ CanStart(t)
    /\ Unlocked(Handle(t, c))
    /\ res' = [res EXCEPT ![t] = [op |-> "get", c |-> c, ret |-> cur[Handle(t, c)],
                                  lin |-> reg[c].val, at |-> reg[c].n, rd |-> 0,
                                  pc0 |-> IF res[t].op = "get" THEN res[t].c ELSE 0,
                                  pret |-> IF res[t].op = "get" THEN res[t].ret ELSE None,
                                  arg |-> None]]
    /\ snaps' = snaps \cup Snap(c, cur[Handle(t, c)])
    /\ ops' = ops + 1
    /\ UNCHANGED <<heap, cur, mutex, pc, loc, reg, lmlog>>

(***************************************************************************)
(* Da::set / Oda::set (mod.rs 77-80, 182-185).                             *)
(***************************************************************************)
Set(t, c, v) ==
    /\ UNCHANGED <<vecVars, hashVars>>
    /\ CanStart(t)
    /\ Unlocked(Handle(t, c))
    /\ LET a == ArcNew(heap, cur[Handle(t, c)], v) IN
        /\ heap' = a.heap
        /\ cur' = [cur EXCEPT ![Handle(t, c)] = Some(a.ref)]
        /\ reg' = Wrote(c, Some(a.ref), a.heap)
    /\ res' = [res EXCEPT ![t] = [NoRes EXCEPT !.op = "set", !.c = c, !.lin = Some(v),
                                                !.at = reg'[c].n]]
    /\ ops' = ops + 1
    /\ UNCHANGED <<mutex, pc, loc, snaps, lmlog>>

(***************************************************************************)
(* Da::replace / Oda::replace (mod.rs 86-89, 191-194): installs an Arc     *)
(* some get() handed out earlier; an Oda also takes None.                  *)
(***************************************************************************)
\* An Arc installed by value: a new allocation holding a copy
ArcCopied(h, o) ==
    IF IsSome(o) THEN [heap |-> Append(h, h[o[1]]), ref |-> Some(Len(h) + 1)]
    ELSE [heap |-> h, ref |-> o]

\* *old_data = data_arc: the Arc it is given is what the cell now holds
ArcMoved(h, o) == [heap |-> h, ref |-> o]

Replace(t, c, o) ==
    /\ UNCHANGED <<vecVars, hashVars>>
    /\ CanStart(t)
    /\ Unlocked(Handle(t, c))
    /\ \/ IsSome(o) /\ \E s \in snaps : s.arc = o[1]
       \/ o = None /\ c \in OdaCells
    /\ LET a == ArcMoved(heap, o) IN
        /\ heap' = a.heap
        /\ cur' = [cur EXCEPT ![Handle(t, c)] = a.ref]
        /\ reg' = Wrote(c, a.ref, a.heap)
    /\ res' = [res EXCEPT ![t] = [NoRes EXCEPT !.op = "replace", !.c = c, !.at = reg'[c].n,
                                                !.arg = o]]
    /\ ops' = ops + 1
    /\ UNCHANGED <<mutex, pc, loc, snaps, lmlog>>

(***************************************************************************)
(* Da::acquire / Oda::acquire (mod.rs 44-48, 153-157): `let c = ..` is a   *)
(* new cell, with a Mutex of its own, around an Arc some get() handed out. *)
(* The cell the name stood for is dropped; no other thread has a clone.    *)
(***************************************************************************)
Acquire(t, c, o) ==
    /\ UNCHANGED <<vecVars, hashVars>>
    /\ CanStart(t)
    /\ DOMAIN pc = {t}
    /\ IsSome(o) /\ \E s \in snaps : s.arc = o[1]
    /\ LET a == ArcMoved(heap, o) IN
        /\ heap' = a.heap
        /\ cur' = [cur EXCEPT ![Handle(t, c)] = a.ref]
        /\ reg' = [reg EXCEPT ![c] = [val |-> ValOf(a.heap, a.ref), n |-> 0]]
    /\ mutex' = [mutex EXCEPT ![Handle(t, c)] = Free]
    /\ res' = [res EXCEPT ![t] = [NoRes EXCEPT !.op = "acquire", !.c = c, !.arg = o]]
    /\ ops' = ops + 1
    /\ UNCHANGED <<pc, loc, snaps, lmlog>>

(***************************************************************************)
(* Oda::empty (mod.rs 94-96): Option::take under the lock.                 *)
(***************************************************************************)
\* A take that clears the slot and hands nothing back
OptionTakeDropping(o) == [left |-> None, ret |-> None]

\* Option::take: None is left in the slot and the content is returned
OptionTake(o) == [left |-> None, ret |-> o]

Empty(t, c) ==
    /\ UNCHANGED <<vecVars, hashVars>>
    /\ CanStart(t)
    /\ c \in OdaCells
    /\ Unlocked(Handle(t, c))
    /\ cur' = [cur EXCEPT ![Handle(t, c)] = OptionTake(@).left]
    /\ reg' = Wrote(c, None, heap)
    /\ res' = [res EXCEPT ![t] = [NoRes EXCEPT !.op = "empty", !.c = c,
                                                !.ret = OptionTake(cur[Handle(t, c)]).ret,
                                                !.lin = reg[c].val, !.at = reg'[c].n]]
    /\ snaps' = snaps \cup Snap(c, cur[Handle(t, c)])
    /\ ops' = ops + 1
    /\ UNCHANGED <<heap, mutex, pc, loc, lmlog>>

(***************************************************************************)
(* Da::mutate / Oda::mutate (mod.rs 110-119, 207-214): self.get(), then    *)
(* func on the clone with no lock held, then self.set().                   *)
(***************************************************************************)
\* A test that takes every Option for a value
IfLetAny(o) == TRUE

\* Oda::mutate: if let Some(old_value) = self.get(); a Da always holds one
IfLetSome(o) == IsSome(o)

\* A guard of the read that stays alive while func runs
GuardOfGetKept(m, s, t) == [m EXCEPT ![s] = t]

\* self.get(): the guard is a temporary of lock().unwrap().clone() and is
\* dropped before get returns, so func runs with no lock held
GuardOfGet(m, s, t) == m

MutateRead(t, c) ==
    /\ UNCHANGED <<vecVars, hashVars>>
    /\ CanStart(t)
    /\ Unlocked(Handle(t, c))
    /\ ops' = ops + 1
    /\ snaps' = snaps \cup Snap(c, cur[Handle(t, c)])
    /\ IF IfLetSome(cur[Handle(t, c)])
       THEN /\ pc' = [pc EXCEPT ![t] = "mutate_f"]
            /\ loc' = [loc EXCEPT ![t] = [IdleLoc EXCEPT !.c = c, !.old = cur[Handle(t, c)],
                                                         !.k = reg[c].n]]
            /\ UNCHANGED res
       ELSE /\ res' = [res EXCEPT ![t] = [NoRes EXCEPT !.op = "mutate_none", !.c = c,
                                                       !.at = reg[c].n]]
            /\ UNCHANGED <<pc, loc>>
    /\ mutex' = GuardOfGet(mutex, Handle(t, c), t)
    /\ UNCHANGED <<heap, cur, reg, lmlog>>

\* The value the cell holds when the result is stored
MutateInputNow(h, old, now) == h[now[1]]

\* The value func is called with: the clone of the snapshot read at the start.
MutateInput(h, old, now) == h[old[1]]

MutateWrite(t) ==
    /\ UNCHANGED <<vecVars, hashVars>>
    /\ pc[t] = "mutate_f"
    /\ Unlocked(Handle(t, loc[t].c))
    /\ LET c == loc[t].c
           s == Handle(t, c)
           v == Func(MutateInput(heap, loc[t].old, IF IsSome(cur[s]) THEN cur[s] ELSE loc[t].old))
           a == ArcNew(heap, cur[s], v)
       IN  /\ heap' = a.heap
           /\ cur' = [cur EXCEPT ![s] = Some(a.ref)]
           /\ reg' = Wrote(c, Some(a.ref), a.heap)
           /\ res' = [res EXCEPT ![t] = [NoRes EXCEPT !.op = "mutate", !.c = c,
                                                       !.ret = Some(a.ref),
                                                       !.lin = ValOf(heap, loc[t].old),
                                                       !.at = reg'[c].n, !.rd = loc[t].k]]
    /\ pc' = [pc EXCEPT ![t] = "idle"]
    /\ loc' = [loc EXCEPT ![t] = IdleLoc]
    /\ UNCHANGED <<mutex, ops, snaps, lmlog>>

(***************************************************************************)
(* locking_mutate!(c1, c2; func) (locking_mutate/mod.rs 76-117) over the   *)
(* cells LmCells, in the order listed.                                     *)
(***************************************************************************)
LmCells == <<1, 2>>

\* A lock that leaves no guard behind
MutexLockNoGuard(m, s, t) == m

\* Lock::lock (locking_mutate/mod.rs 128-148): the guard stays alive.
MutexLock(m, s, t) == [m EXCEPT ![s] = t]

\* A guard dropped as soon as its own result is written
GuardDroppedAtWrite(m, s) == [m EXCEPT ![s] = Free]

\* A guard lives to the end of the macro's block, past its own write-back.
GuardKept(m, s) == m

\* A function that returns its results in the opposite order
LmFuncSwapped(vals) ==
    [i \in DOMAIN vals |->
        LET v == vals[Len(vals) + 1 - i]
        IN  IF IsSome(v) THEN Some(Func(v[1])) ELSE None]

\* func: (a, b) -> (a + 1, b + 1); an Oda's value is an Option (oda_lock test).
LmFunc(vals) == [i \in DOMAIN vals |-> IF IsSome(vals[i]) THEN Some(Func(vals[i][1])) ELSE None]

\* locking_mutate!(cells; func): the cells as the call lists them
LmStartOn(t, cells) ==
    /\ UNCHANGED <<vecVars, hashVars>>
    /\ CanStart(t)
    /\ pc' = [pc EXCEPT ![t] = "lm_lock"]
    /\ loc' = [loc EXCEPT ![t] = [IdleLoc EXCEPT !.c = Len(lmlog), !.cells = cells]]
    /\ ops' = ops + 1
    /\ UNCHANGED <<heap, cur, mutex, res, reg, snaps, lmlog>>

LmStart(t) == LmStartOn(t, LmCells)

\* The cells locked from the last listed to the first
LastToLock(cells, k) == cells[Len(cells) - k]

\* line 94: the tuple ($(Lock::lock(&$data_access),)+) is evaluated left to
\* right, so with k guards alive the next cell locked is the (k + 1)-th listed
NextToLock(cells, k) == cells[k + 1]

\* A reentrant lock: the thread that holds the guard may lock again
LockReentrant(s, t) == Unlocked(s) \/ mutex[s] = t

\* Mutex::lock returns to thread t once no guard is alive, t's own included
\* (std::sync::Mutex is not reentrant).
LockReturns(s, t) == Unlocked(s)

\* line 94: the locks are taken left to right; loc.k guards are alive.
LmLock(t) ==
    /\ UNCHANGED <<vecVars, hashVars>>
    /\ pc[t] = "lm_lock"
    /\ LET s == Handle(t, NextToLock(loc[t].cells, loc[t].k)) IN
        /\ LockReturns(s, t)
        /\ mutex' = MutexLock(mutex, s, t)
    /\ pc' = [pc EXCEPT ![t] = IF loc[t].k + 1 = Len(loc[t].cells) THEN "lm_call" ELSE "lm_lock"]
    /\ loc' = [loc EXCEPT ![t].k = @ + 1]
    /\ UNCHANGED <<heap, cur, ops, res, reg, snaps, lmlog>>

\* lines 97-103: every guarded value is cloned out (ooa) and func is called once.
LmCall(t) ==
    /\ UNCHANGED <<vecVars, hashVars>>
    /\ pc[t] = "lm_call"
    /\ LET vals == [i \in DOMAIN loc[t].cells |-> ValOf(heap, cur[Handle(t, loc[t].cells[i])])] IN
        /\ loc' = [loc EXCEPT ![t].vals = vals, ![t].outs = LmFunc(vals), ![t].k = 0]
        /\ lmlog' = Append(lmlog, vals)
    /\ pc' = [pc EXCEPT ![t] = "lm_write"]
    /\ UNCHANGED <<heap, cur, mutex, ops, res, reg, snaps>>

\* lines 106-114: result loc.k + 1 is written through its guard
\* (Wrapper::from(value).into() is Arc::new, data_structures.rs 72-87).
LmWrite(t) ==
    /\ UNCHANGED <<vecVars, hashVars>>
    /\ pc[t] = "lm_write"
    /\ LET i == loc[t].k + 1
           c == loc[t].cells[i]
           s == Handle(t, c)
           out == loc[t].outs[i]
           a == IF IsSome(out) THEN ArcNew(heap, None, out[1]) ELSE [heap |-> heap, ref |-> 0]
           new == IF IsSome(out) THEN Some(a.ref) ELSE None
       IN  /\ heap' = a.heap
           /\ cur' = [cur EXCEPT ![s] = new]
           /\ reg' = Wrote(c, new, a.heap)
           /\ mutex' = GuardKept(mutex, s)
           /\ pc' = [pc EXCEPT ![t] = IF i = Len(loc[t].cells) THEN "lm_drop" ELSE "lm_write"]
           /\ loc' = [loc EXCEPT ![t].k = IF i = Len(loc[t].cells) THEN Len(loc[t].cells) ELSE i]
    /\ UNCHANGED <<ops, res, snaps, lmlog>>

\* A guard that is forgotten instead of dropped: the Mutex stays locked
GuardLeaked(m, s) == m

\* drop of a MutexGuard unlocks the Mutex
GuardDropped(m, s) == [m EXCEPT ![s] = Free]

\* line 115: the block ends and the guards are dropped, the last declared first.
LmDrop(t) ==
    /\ UNCHANGED <<vecVars, hashVars>>
    /\ pc[t] = "lm_drop"
    /\ LET s == Handle(t, loc[t].cells[loc[t].k]) IN
        mutex' = IF mutex[s] = t THEN GuardDropped(mutex, s) ELSE mutex
    /\ IF loc[t].k = 1
       THEN /\ pc' = [pc EXCEPT ![t] = "idle"]
            /\ loc' = [loc EXCEPT ![t] = IdleLoc]
            /\ res' = [res EXCEPT ![t] = [NoRes EXCEPT !.op = "lm", !.rd = loc[t].c,
                                                       !.at = Len(lmlog)]]
       ELSE /\ loc' = [loc EXCEPT ![t].k = @ - 1]
            /\ UNCHANGED <<pc, res>>
    /\ UNCHANGED <<heap, cur, ops, reg, snaps, lmlog>>

(***************************************************************************)
(* CellHashMap::new (hash.rs 22-32): DEFAULT_MAX_SIZE empty Odas, of which *)
(* `buckets` lists those set since.  A key is a number; hash_key puts key  *)
(* 0 into one position and every other key into another.                   *)
(***************************************************************************)
DEFAULT_MAX_SIZE == 256
MaxKey == 3

Keys == 0..MaxKey

\* hash_key(key): DefaultHasher, here a function with collisions
HashKey(key) == IF key = 0 THEN 1 ELSE key * DEFAULT_MAX_SIZE

\* (hash_val % DEFAULT_MAX_SIZE) as usize
Position(key) == HashKey(key) % DEFAULT_MAX_SIZE

\* array[position].get(): an Oda that was never set holds None
BucketAt(b, position) == IF position \in DOMAIN b THEN b[position] ELSE None

HashNew ==
    /\ buckets = <<>>
    /\ entries = <<>>
    /\ puts = [k \in Keys |-> None]

(***************************************************************************)
(* CellVec::new (vec.rs 78-84): capacity 0, len 0, an empty array.         *)
(***************************************************************************)
VecFields == {"len", "cap", "arr"}

VecNew ==
    /\ vlen = 0
    /\ vcap = 0
    /\ varr = <<>>
    /\ odas = <<>>
    /\ vlock = [m \in VecFields |-> Free]
    /\ vpoison = [m \in VecFields |-> FALSE]

(***************************************************************************)
(* Spec: threads sharing clones of one Da and one Oda, every operation.    *)
(***************************************************************************)
InitCells(a, ob) ==
    /\ heap = IF IsSome(ob) THEN <<a, ob[1]>> ELSE <<a>>
    /\ cur = [s \in Slots |-> IF s % 2 = 1 THEN Some(1)
                              ELSE IF IsSome(ob) THEN Some(2) ELSE None]
    /\ mutex = [s \in Slots |-> Free]
    /\ reg = [c \in CellIds |-> [val |-> IF c = 1 THEN Some(a) ELSE ob, n |-> 0]]
    /\ snaps = {}
    /\ lmlog = <<>>

InitThreads ==
    /\ pc = [t \in Threads |-> "idle"]
    /\ loc = [t \in Threads |-> IdleLoc]
    /\ ops = 0
    /\ res = [t \in Threads |-> NoRes]

Init ==
    /\ \E a \in Values : \E ob \in {None} \cup {Some(b) : b \in Values} : InitCells(a, ob)
    /\ InitThreads
    /\ VecNew
    /\ HashNew

Next ==
    \E t \in Threads :
        \/ \E c \in CellIds : Get(t, c)
        \/ \E c \in CellIds : \E v \in Values : Set(t, c, v)
        \/ \E c \in CellIds : \E o \in {None} \cup {Some(a) : a \in 1..Len(heap)} : Replace(t, c, o)
        \/ \E c \in CellIds : Empty(t, c)
        \/ \E c \in CellIds : MutateRead(t, c)
        \/ MutateWrite(t)
        \/ LmStart(t)
        \/ LmLock(t)
        \/ LmCall(t)
        \/ LmWrite(t)
        \/ LmDrop(t)

Spec == Init /\ [][Next]_vars

(***************************************************************************)
(* SpecLM: the only writers are locking_mutate! calls; the other           *)
(* operations are reads.                                                   *)
(***************************************************************************)
InitLM ==
    /\ \E a \in Values : \E b \in Values : InitCells(a, Some(b))
    /\ InitThreads
    /\ VecNew
    /\ HashNew

NextLM ==
    \E t \in Threads :
        \/ \E c \in CellIds : Get(t, c)
        \/ LmStart(t)
        \/ LmLock(t)
        \/ LmCall(t)
        \/ LmWrite(t)
        \/ LmDrop(t)

SpecLM == InitLM /\ [][NextLM]_vars

(***************************************************************************)
(* Properties of Da, Oda and locking_mutate!.                              *)
(***************************************************************************)

\* C1: every snapshot a get() (or empty(), or the read inside mutate) handed
\* out still holds the value it held when it was handed out, whatever set,
\* replace, mutate, empty or locking_mutate! took effect on the cell since,
\* through any clone.
SnapshotImmutable == \A s \in snaps : heap[s.arc] = s.val

\* A snapshot whose cell has since been overwritten twice and now holds
\* another Arc with another value.
SnapshotOutlivesWrites ==
    \E s \in snaps :
        /\ heap[s.arc] = s.val
        /\ reg[s.c].n >= 2
        /\ reg[s.c].val # Some(s.val)
        /\ \A t \in Threads : cur[Handle(t, s.c)] # Some(s.arc)

\* The number of transforms a value read from cell c shows: the cells start
\* at heap[1] and heap[2] and every transform adds one.
Applied(c, o) == heap[o[1]] - heap[c]

\* C2: concurrent locking_mutate! calls over the same cells in the same order
\* are serialised: the i-th call of func sees (A + i - 1, B + i - 1), the
\* outputs of the call before it, and once no call is between its read and its
\* last write-back the cells hold (A + k, B + k) for the k calls made.
LmSerialised ==
    /\ \A i \in 1..Len(lmlog) :
           lmlog[i] = <<Some(heap[1] + i - 1), Some(heap[2] + i - 1)>>
    /\ (\A t \in Threads : pc[t] # "lm_write") =>
           \A t \in Threads : \A c \in CellIds :
               ValOf(heap, cur[Handle(t, c)]) = Some(heap[c] + Len(lmlog))

\* Two transforms are done and nothing is in progress: one of them entered the
\* macro before the other one called func, and called func after it.
LmTwoOverlapped ==
    /\ \A t \in Threads : pc[t] = "idle"
    /\ Len(lmlog) >= 2
    /\ \E t \in Threads : res[t].op = "lm" /\ res[t].at > res[t].rd + 1
    /\ ValOf(heap, cur[1]) = Some(heap[1] + Len(lmlog))

\* C3: from the call of func to the last write-back the transform holds the
\* lock of every listed cell (so a get or set of another thread cannot take
\* effect there), and a thread that reads one cell and afterwards another
\* never sees fewer transforms applied in the second read than in the first.
LmNoPartialView ==
    /\ \A t \in Threads :
           pc[t] \in {"lm_call", "lm_write"} =>
               \A i \in DOMAIN LmCells : mutex[Handle(t, LmCells[i])] = t
    /\ \A t \in Threads :
           (res[t].op = "get" /\ res[t].pc0 # 0) =>
               Applied(res[t].c, res[t].ret) >= Applied(res[t].pc0, res[t].pret)

\* A transform has written its first result and not yet its second, and
\* another thread, which has read one cell and then the other, has an
\* operation left to start.
LmPartlyWritten ==
    \E t \in Threads : \E u \in Threads \ {t} :
        /\ pc[t] = "lm_write" /\ loc[t].k = 1
        /\ res[u].op = "get" /\ res[u].pc0 # 0 /\ res[u].pc0 # res[u].c
        /\ pc[u] = "idle"

\* C4: mutate stores func(V0) for the V0 it read at its start, whatever was set
\* in between; until a later write takes effect the cell holds that value;
\* and while func runs a get returns the last write that took effect.
MutateLastWriterWins ==
    \A t \in Threads :
        /\ res[t].op = "mutate" =>
            /\ ValOf(heap, res[t].ret) = Some(Func(res[t].lin[1]))
            /\ reg[res[t].c].n = res[t].at =>
                   \A u \in Threads : cur[Handle(u, res[t].c)] = res[t].ret
        /\ pc[t] = "mutate_f" =>
               \A u \in Threads :
                   ValOf(heap, cur[Handle(u, loc[t].c)]) = reg[loc[t].c].val

\* mutate read V0 = 0, a set(V1) of another thread took effect next, mutate
\* wrote back right after it, and the cell holds func(V0) = 1, not func(V1).
MutateDiscardedSet ==
    \E t \in Threads : \E u \in Threads \ {t} :
        /\ res[t].op = "mutate" /\ res[u].op = "set" /\ res[u].c = res[t].c
        /\ res[u].at = res[t].rd + 1
        /\ res[t].at = res[t].rd + 2
        /\ reg[res[t].c].n = res[t].at
        /\ res[t].lin = Some(0)
        /\ res[u].lin # res[t].lin
        /\ ValOf(heap, cur[Handle(u, res[t].c)]) = Some(1)

\* C5: every get, through whichever clone, returns the value of the last
\* write that had taken effect on the cell when the get took effect.
GetSetLinearizable ==
    \A t \in Threads : res[t].op = "get" => ValOf(heap, res[t].ret) = res[t].lin

\* A get through one clone returned what the set through another clone, the
\* last write before it, had stored.
GetSawOtherClonesSet ==
    \E t \in Threads : \E u \in Threads \ {t} :
        /\ res[u].op = "set" /\ res[t].op = "get" /\ res[t].c = res[u].c
        /\ res[t].at = res[u].at
        /\ ValOf(heap, res[t].ret) = res[u].lin
        /\ res[u].lin # Some(heap[res[u].c])

(***************************************************************************)
(* CellVec (vec.rs).  len, capacity and array are three Da cells; every    *)
(* element of the array is an Oda.  A slot id names one Oda: cloning the   *)
(* boxed slice clones the handles, so the ids are shared between arrays.   *)
(* usize has more values than the integers at hand: UsizeMax stands for    *)
(* usize::MAX, the value 0 - 1 wraps to in a build without overflow checks.*)
(***************************************************************************)
UsizeMax == 2147483647

VecOrder == <<"len", "cap", "arr">>

VIdleLoc == [op |-> "none", idx |-> 0, val |-> 0, k |-> 0, slot |-> 0, removed |-> None,
             len |-> 0, cap |-> 0, arr |-> <<>>]

NoPanic == [kind |-> "none", len |-> 0, index |-> 0]

PanicOf(kind, len, index) == [kind |-> kind, len |-> len, index |-> index]

VNoRes == [op |-> "none", idx |-> 0, val |-> 0, ret |-> None, err |-> None,
           panic |-> NoPanic, n |-> 0, over |-> FALSE]

\* history: another thread is inside a call
Overlaps(t) == \E u \in DOMAIN pc \ {t} : pc[u] \notin {"idle", "panicked", "join", "unspawned"}

Nones(size) == [i \in 1..size |-> None]

FreshOdas(n, size) == [i \in 1..size |-> n + i]

\* capacity.max(1)
GrowSize(capacity) == IF capacity > 1 THEN capacity ELSE 1

\* A growth of one slot's worth
GrowByOne(capacity) == capacity + 1

\* capacity += 1 when it is 0, capacity <<= 1 otherwise
GrowCapacity(capacity) == IF capacity = 0 THEN 1 ELSE capacity * 2

\* The closure of push: grows when len >= capacity, then array[len].set(..)
PushClosure(len, capacity, array, od, new_value) ==
    LET grow == len >= capacity
        size == IF grow THEN GrowSize(capacity) ELSE 0
        array1 == IF grow THEN array \o FreshOdas(Len(od), size) ELSE array
        od1 == IF grow THEN od \o Nones(size) ELSE od
        capacity1 == IF grow THEN GrowCapacity(capacity) ELSE capacity
    IN  IF len >= Len(array1)
        THEN [panic |-> PanicOf("index out of bounds", Len(array1), len),
              len |-> len, capacity |-> capacity, array |-> array, odas |-> od,
              removed |-> None]
        ELSE [panic |-> NoPanic, len |-> len + 1, capacity |-> capacity1,
              array |-> array1,
              odas |-> [od1 EXCEPT ![array1[len + 1]] = Some(new_value)],
              removed |-> None]

\* A rebuild that also drops everything behind the removed slot
RemoveFrom(array, index) == SubSeq(array, 1, index)

\* A rebuild that drops the last slot whatever the index
RemoveLast(array, index) == SubSeq(array, 1, Len(array) - 1)

\* [first, second].concat() after the two split_at calls
RemoveAt(array, index) ==
    SubSeq(array, 1, index) \o SubSeq(array, index + 2, Len(array))

\* A threshold that keeps capacity at twice the length
ShrinkBelowHalf(capacity, len) ==
    IF capacity \div 2 > len THEN capacity \div 2 ELSE capacity

\* The other threshold: if capacity - len < len { capacity >>= 1 }
ShrinkWhenHalfFull(capacity, len) ==
    IF capacity - len < len THEN capacity \div 2 ELSE capacity

\* if capacity >> 1 >= len { capacity >>= 1 }
ShrinkCapacity(capacity, len) ==
    IF capacity \div 2 >= len THEN capacity \div 2 ELSE capacity

\* The closure of remove.  wraps: whether the build wraps on usize overflow
\* (it panics otherwise).
RemoveClosure(len, capacity, array, od, index, wraps) ==
    IF index >= Len(array)
    THEN [panic |-> PanicOf("mid > len", Len(array), index),
          len |-> len, capacity |-> capacity, array |-> array, odas |-> od,
          removed |-> None]
    ELSE LET removed == od[array[index + 1]]
             array1 == RemoveAt(array, index)
             len1 == IF len = 0 THEN UsizeMax ELSE len - 1
         IN  IF removed = None
             THEN [panic |-> NoPanic, len |-> len, capacity |-> capacity,
                   array |-> array1, odas |-> od, removed |-> removed]
             ELSE IF len = 0 /\ ~wraps
             THEN [panic |-> PanicOf("attempt to subtract with overflow", len, index),
                   len |-> len, capacity |-> capacity, array |-> array, odas |-> od,
                   removed |-> removed]
             ELSE [panic |-> NoPanic, len |-> len1,
                   capacity |-> ShrinkCapacity(capacity, len1),
                   array |-> array1, odas |-> od, removed |-> removed]

\* A guard dropped while its thread panics poisons the Mutex.
Unwind(t) ==
    /\ vpoison' = [m \in VecFields |-> vpoison[m] \/ vlock[m] = t]
    /\ vlock' = [m \in VecFields |-> IF vlock[m] = t THEN Free ELSE vlock[m]]

Panicked(t, op, idx, val, p) ==
    /\ pc' = [pc EXCEPT ![t] = "panicked"]
    /\ loc' = [loc EXCEPT ![t] = VIdleLoc]
    /\ res' = [res EXCEPT ![t] = [op |-> op, idx |-> idx, val |-> val, ret |-> None,
                                  err |-> None, panic |-> p, n |-> @.n,
                                  over |-> Overlaps(t)]]

Returned(t, op, idx, val, ret, err) ==
    /\ pc' = [pc EXCEPT ![t] = "idle"]
    /\ loc' = [loc EXCEPT ![t] = VIdleLoc]
    /\ res' = [res EXCEPT ![t] = [op |-> op, idx |-> idx, val |-> val, ret |-> ret,
                                  err |-> err, panic |-> NoPanic, n |-> @.n + 1,
                                  over |-> Overlaps(t)]]

Poisoned(m) == PanicOf("PoisonError", 0, 0)

\* A set that leaves the slot as it was
OdaSetKept(od, slot, new_value) == od

\* Oda::set: the slot holds a new snapshot of the value
OdaSet(od, slot, new_value) == [od EXCEPT ![slot] = Some(new_value)]

\* What CellVec::set unwraps: the snapshot the slot held before the set
OdaSetReturn(od, slot) == od[slot]

\* a read that always lands on the first Oda ever made
OdaGetFirst(od, slot) == od[1]

\* Oda::get: the snapshot the slot holds, if any
OdaGet(od, slot) == od[slot]

\* A check that lets the index one past the end through
WithinBoundsInclusive(index, len) == index <= len

\* in_bounds: index < self.len.copy_value()
WithinBounds(index, len) == index < len

(***************************************************************************)
(* in_bounds, first read of len: index < self.len.copy_value().  get and   *)
(* set go on to read the array, remove goes on to lock; a failed check     *)
(* reads len a second time for the error.                                  *)
(***************************************************************************)
VInBounds(t, op, i, v) ==
    /\ UNCHANGED <<cellVars, hashVars>>
    /\ pc[t] = "idle"
    /\ vlock["len"] = Free
    /\ ops' = ops + 1
    /\ UNCHANGED <<vlen, vcap, varr, odas, vlock, vpoison>>
    /\ IF vpoison["len"]
       THEN Panicked(t, op, i, v, Poisoned("len"))
       ELSE /\ pc' = [pc EXCEPT ![t] = IF ~WithinBounds(i, vlen) THEN "ib2"
                                       ELSE IF op = "remove" THEN "lock" ELSE "arr"]
            /\ loc' = [loc EXCEPT ![t] = [VIdleLoc EXCEPT !.op = op, !.idx = i, !.val = v]]
            /\ UNCHANGED res

\* in_bounds, second read of len: max_bound of the OutOfBounds error.  get
\* and set turn the error into None.
VIb2(t) ==
    /\ UNCHANGED <<cellVars, hashVars>>
    /\ pc[t] = "ib2"
    /\ vlock["len"] = Free
    /\ UNCHANGED <<ops, vlen, vcap, varr, odas, vlock, vpoison>>
    /\ IF vpoison["len"]
       THEN Panicked(t, loc[t].op, loc[t].idx, loc[t].val, Poisoned("len"))
       ELSE Returned(t, loc[t].op, loc[t].idx, loc[t].val, None,
                     IF loc[t].op = "remove" THEN Some(<<loc[t].idx, vlen>>) ELSE None)

\* get and set: (**self.array.get())[index]
VArr(t) ==
    /\ UNCHANGED <<cellVars, hashVars>>
    /\ pc[t] = "arr"
    /\ vlock["arr"] = Free
    /\ UNCHANGED <<ops, vlen, vcap, varr, odas, vlock, vpoison>>
    /\ IF vpoison["arr"]
       THEN Panicked(t, loc[t].op, loc[t].idx, loc[t].val, Poisoned("arr"))
       ELSE IF loc[t].idx >= Len(varr)
       THEN Panicked(t, loc[t].op, loc[t].idx, loc[t].val,
                     PanicOf("index out of bounds", Len(varr), loc[t].idx))
       ELSE /\ pc' = [pc EXCEPT ![t] = "slot"]
            /\ loc' = [loc EXCEPT ![t].slot = varr[loc[t].idx + 1]]
            /\ UNCHANGED res

\* get: .get().expect(..); set: data.set(new_value).expect(..)
VSlot(t) ==
    /\ UNCHANGED <<cellVars, hashVars>>
    /\ pc[t] = "slot"
    /\ UNCHANGED <<ops, vlen, vcap, varr, vlock, vpoison>>
    /\ LET slot == loc[t].slot
           isSet == loc[t].op = "set"
           found == IF isSet THEN OdaSetReturn(odas, slot) ELSE OdaGet(odas, slot)
       IN  /\ odas' = IF isSet THEN OdaSet(odas, slot, loc[t].val) ELSE odas
           /\ IF found = None
              THEN Panicked(t, loc[t].op, loc[t].idx, loc[t].val,
                            PanicOf("Expected value inside array bounds", 0, loc[t].idx))
              ELSE Returned(t, loc[t].op, loc[t].idx, loc[t].val, found, None)

\* push: the handles are cloned, the transform is about to lock
VPush(t, v) ==
    /\ UNCHANGED <<cellVars, hashVars>>
    /\ pc[t] = "idle"
    /\ ops' = ops + 1
    /\ pc' = [pc EXCEPT ![t] = "lock"]
    /\ loc' = [loc EXCEPT ![t] = [VIdleLoc EXCEPT !.op = "push", !.val = v]]
    /\ UNCHANGED <<res, vlen, vcap, varr, odas, vlock, vpoison>>

\* locking_mutate!(len, capacity, array; closure): the next lock().unwrap()
VLock(t) ==
    /\ UNCHANGED <<cellVars, hashVars>>
    /\ pc[t] = "lock"
    /\ LET m == VecOrder[loc[t].k + 1]
       IN  /\ vlock[m] = Free
           /\ IF vpoison[m]
              THEN /\ Panicked(t, loc[t].op, loc[t].idx, loc[t].val, Poisoned(m))
                   /\ Unwind(t)
              ELSE /\ vlock' = MutexLock(vlock, m, t)
                   /\ pc' = [pc EXCEPT ![t] = IF loc[t].k + 1 = Len(VecOrder)
                                               THEN "body" ELSE "lock"]
                   /\ loc' = [loc EXCEPT ![t].k = @ + 1]
                   /\ UNCHANGED <<res, vpoison>>
    /\ UNCHANGED <<ops, vlen, vcap, varr, odas>>

\* The closure runs on the three locked values and its results are written
\* back through the guards.
VBody(t) ==
    /\ UNCHANGED <<cellVars, hashVars>>
    /\ pc[t] = "body"
    /\ \E wraps \in BOOLEAN :
         LET out == IF loc[t].op = "push"
                    THEN PushClosure(vlen, vcap, varr, odas, loc[t].val)
                    ELSE RemoveClosure(vlen, vcap, varr, odas, loc[t].idx, wraps)
         IN  IF out.panic # NoPanic
             THEN /\ Panicked(t, loc[t].op, loc[t].idx, loc[t].val, out.panic)
                  /\ Unwind(t)
                  /\ UNCHANGED <<vlen, vcap, varr, odas>>
             ELSE /\ vlen' = out.len
                  /\ vcap' = out.capacity
                  /\ varr' = out.array
                  /\ odas' = out.odas
                  /\ pc' = [pc EXCEPT ![t] = "drop"]
                  /\ loc' = [loc EXCEPT ![t].removed = out.removed]
                  /\ UNCHANGED <<res, vlock, vpoison>>
    /\ UNCHANGED ops

\* The guards are dropped in reverse order; after the last one remove
\* unwraps what it removed.
VDrop(t) ==
    /\ UNCHANGED <<cellVars, hashVars>>
    /\ pc[t] = "drop"
    /\ vlock' = [vlock EXCEPT ![VecOrder[loc[t].k]] = Free]
    /\ UNCHANGED <<ops, vlen, vcap, varr, odas, vpoison>>
    /\ IF loc[t].k > 1
       THEN /\ loc' = [loc EXCEPT ![t].k = @ - 1]
            /\ UNCHANGED <<pc, res>>
       ELSE IF loc[t].op = "remove" /\ loc[t].removed = None
       THEN Panicked(t, "remove", loc[t].idx, loc[t].val,
                     PanicOf("Expected value inside array bounds", 0, loc[t].idx))
       ELSE Returned(t, loc[t].op, loc[t].idx, loc[t].val, loc[t].removed, None)

\* the steps of a locking_mutate! call
VecLmStep(t) ==
    \/ VLock(t)
    \/ VBody(t)
    \/ VDrop(t)

VecStep(t) ==
    \/ VIb2(t)
    \/ VArr(t)
    \/ VSlot(t)
    \/ VecLmStep(t)

CellsUnused ==
    /\ heap = <<>>
    /\ cur = <<>>
    /\ mutex = <<>>
    /\ reg = <<>>
    /\ snaps = {}
    /\ lmlog = <<>>

(***************************************************************************)
(* SpecVecSeq: one thread calling get, set, push and remove on a new       *)
(* CellVec, every call running to completion before the next.              *)
(***************************************************************************)
MaxSeqOps == 5

MaxIndex == 3

Indices == 0..MaxIndex

InitVecSeq ==
    /\ VecNew
    /\ HashNew
    /\ CellsUnused
    /\ pc = [t \in {1} |-> "idle"]
    /\ loc = [t \in {1} |-> VIdleLoc]
    /\ res = [t \in {1} |-> VNoRes]
    /\ ops = 0

VecSeqCall(t) ==
    /\ ops < MaxSeqOps
    /\ \/ \E i \in Indices : VInBounds(t, "get", i, 0)
       \/ \E i \in Indices : \E v \in Values : VInBounds(t, "set", i, v)
       \/ \E i \in Indices : VInBounds(t, "remove", i, 0)
       \/ \E v \in Values : VPush(t, v)

NextVecSeq ==
    \/ VecSeqCall(1)
    \/ VecStep(1)

SpecVecSeq == InitVecSeq /\ [][NextVecSeq]_vars

(***************************************************************************)
(* Threads sharing clones of one CellVec, as the tests of the repository   *)
(* run them: the main thread pushes onto a new CellVec, then spawns the    *)
(* workers and joins them; every worker calls the CellVec through its own  *)
(* clone.                                                                  *)
(***************************************************************************)
Main == 1

InitVecThreads(workers) ==
    /\ VecNew
    /\ HashNew
    /\ CellsUnused
    /\ pc = [t \in {Main} \cup workers |-> "idle"]
    /\ loc = [t \in {Main} \cup workers |-> VIdleLoc]
    /\ res = [t \in {Main} \cup workers |-> VNoRes]
    /\ ops = 0

VecPopulate(maxPushes, vals) ==
    /\ res[Main].n < maxPushes
    /\ \E v \in vals : VPush(Main, v)

VecSpawn ==
    /\ pc[Main] = "idle"
    /\ pc' = [pc EXCEPT ![Main] = "join"]
    /\ UNCHANGED <<loc, res, ops>>
    /\ UNCHANGED <<vecVars, hashVars>>
    /\ UNCHANGED <<cellVars, hashVars>>

\* a worker makes one call
VecWorkerCall(t) ==
    /\ pc[Main] = "join"
    /\ res[t].n = 0
    /\ \/ \E i \in Indices : VInBounds(t, "get", i, 0)
       \/ \E i \in Indices : \E v \in Values : VInBounds(t, "set", i, v)
       \/ \E i \in Indices : VInBounds(t, "remove", i, 0)
       \/ \E v \in Values : VPush(t, v)

(***************************************************************************)
(* SpecVecPair: two workers, one call each.                                *)
(***************************************************************************)
MaxPopulate == 4

PairWorkers == {2, 3}

InitVecPair == InitVecThreads(PairWorkers)

NextVecPair ==
    \/ VecPopulate(MaxPopulate, {0})
    \/ VecSpawn
    \/ VecLmStep(Main)
    \/ \E t \in PairWorkers : VecWorkerCall(t)
    \/ \E t \in PairWorkers : VecStep(t)

SpecVecPair == InitVecPair /\ [][NextVecPair]_vars

(***************************************************************************)
(* SpecVecRace: one worker calling set, get and push and two workers       *)
(* calling remove, on a CellVec the main thread has pushed onto.           *)
(***************************************************************************)
RacePopulate == 3

MaxRaceCalls == 5

RaceWriters == {2}

RaceRemovers == {3, 4}

RaceIndices == {0, 2}

InitVecRace == InitVecThreads(RaceWriters \cup RaceRemovers)

VecRaceWrite(t) ==
    /\ pc[Main] = "join"
    /\ ops - res[Main].n < MaxRaceCalls
    /\ \/ \E i \in RaceIndices : VInBounds(t, "set", i, 1)
       \/ \E i \in RaceIndices : VInBounds(t, "get", i, 0)
       \/ VPush(t, 1)

VecRaceRemove(t) ==
    /\ pc[Main] = "join"
    /\ ops - res[Main].n < MaxRaceCalls
    /\ \E i \in RaceIndices : VInBounds(t, "remove", i, 0)

NextVecRace ==
    \/ VecPopulate(RacePopulate, {0})
    \/ VecSpawn
    \/ VecLmStep(Main)
    \/ \E t \in RaceWriters : VecRaceWrite(t)
    \/ \E t \in RaceRemovers : VecRaceRemove(t)
    \/ \E t \in RaceWriters \cup RaceRemovers : VecStep(t)

SpecVecRace == InitVecRace /\ [][NextVecRace]_vars

(***************************************************************************)
(* populate(size) of the tests of vec.rs: size pushes onto a new CellVec.  *)
(***************************************************************************)
RECURSIVE Populated(_)
Populated(size) ==
    IF size = 0
    THEN [panic |-> NoPanic, len |-> 0, capacity |-> 0, array |-> <<>>, odas |-> <<>>,
          removed |-> None]
    ELSE LET p == Populated(size - 1)
         IN  PushClosure(p.len, p.capacity, p.array, p.odas, 0)

\* The call a thread is inside, or its last one
CallOf(t) ==
    IF pc[t] \in {"idle", "panicked", "join"}
    THEN [op |-> res[t].op, idx |-> res[t].idx]
    ELSE [op |-> loc[t].op, idx |-> loc[t].idx]

\* Three pushes by the main thread, then remove(2) by worker 2 and a push by
\* worker 3, and no other call.
RemovePushPair ==
    /\ pc[Main] = "join"
    /\ res[Main].n = 3
    /\ ops = 5
    /\ CallOf(2) = [op |-> "remove", idx |-> 2]
    /\ CallOf(3).op = "push"

PushThenRemove ==
    LET p == Populated(3)
        a == PushClosure(p.len, p.capacity, p.array, p.odas, 0)
        b == RemoveClosure(a.len, a.capacity, a.array, a.odas, 2, FALSE)
    IN  <<b.len, b.capacity>>

RemoveThenPush ==
    LET p == Populated(3)
        a == RemoveClosure(p.len, p.capacity, p.array, p.odas, 2, FALSE)
        b == PushClosure(a.len, a.capacity, a.array, a.odas, 0)
    IN  <<b.len, b.capacity>>

\* C6: from length 3 / capacity 4, a remove(2) and a push running
\* concurrently never panic, whatever the interleaving, and once both have
\* returned length and capacity are what one of the two sequential orders
\* gives, which is length 3 / capacity 4.
RemovePushCancelOut ==
    RemovePushPair =>
        /\ Populated(3).len = 3 /\ Populated(3).capacity = 4
        /\ \A t \in PairWorkers : pc[t] # "panicked"
        /\ (\A t \in PairWorkers : pc[t] = "idle") =>
               /\ <<vlen, vcap>> \in {PushThenRemove, RemoveThenPush}
               /\ vlen = 3
               /\ vcap = 4

\* Both calls have returned, each while the other was inside its call or
\* after it, the push having waited for the remove's guards.
RemovePushBothReturned ==
    /\ RemovePushPair
    /\ \A t \in PairWorkers : pc[t] = "idle" /\ res[t].n = 1
    /\ res[2].over
    /\ res[2].ret # None
    /\ vlen = 3
    /\ vcap = 4

\* C8: the storage array has as many slots as capacity says.
SlotsEqualCapacity == Len(varr) = vcap

LenWithinCapacity == 0 <= vlen /\ vlen <= vcap

(***************************************************************************)
(* The naive CellVec of detailed_tests.rs (test_for_race_condition): len,  *)
(* capacity and array are each changed by their own Da::mutate, a get      *)
(* followed by a set with no lock held in between.  Every get and every    *)
(* set of a cell is one step.                                              *)
(***************************************************************************)
NGoto(t, label, l) ==
    /\ pc' = [pc EXCEPT ![t] = label]
    /\ loc' = [loc EXCEPT ![t] = l]
    /\ UNCHANGED res

\* push: *self.len.get() of the test len >= capacity
NPushLen(t, v) ==
    /\ UNCHANGED <<cellVars, hashVars>>
    /\ pc[t] = "idle"
    /\ ops' = ops + 1
    /\ NGoto(t, "p_cap", [VIdleLoc EXCEPT !.op = "push", !.val = v, !.len = vlen])
    /\ UNCHANGED <<vecVars, hashVars>>

\* push: *self.capacity.get() of the test len >= capacity
NPushCap(t) ==
    /\ UNCHANGED <<cellVars, hashVars>>
    /\ pc[t] = "p_cap"
    /\ NGoto(t, IF loc[t].len >= vcap THEN "g_arr" ELSE "l_len", loc[t])
    /\ UNCHANGED <<ops, vecVars>>

\* push, growing: array.mutate reads the array
NGrowArrGet(t) ==
    /\ UNCHANGED <<cellVars, hashVars>>
    /\ pc[t] = "g_arr"
    /\ NGoto(t, "g_cap", [loc[t] EXCEPT !.arr = varr])
    /\ UNCHANGED <<ops, vecVars>>

\* push, growing: the closure reads capacity and pads the clone of the array
NGrowCapGet(t) ==
    /\ UNCHANGED <<cellVars, hashVars>>
    /\ pc[t] = "g_cap"
    /\ LET size == GrowSize(vcap)
       IN  /\ NGoto(t, "g_set", [loc[t] EXCEPT !.arr = @ \o FreshOdas(Len(odas), size)])
           /\ odas' = odas \o Nones(size)
    /\ UNCHANGED <<ops, vlen, vcap, varr, vlock, vpoison>>

\* push, growing: array.mutate stores the padded array
NGrowArrSet(t) ==
    /\ UNCHANGED <<cellVars, hashVars>>
    /\ pc[t] = "g_set"
    /\ varr' = loc[t].arr
    /\ NGoto(t, "c_get", loc[t])
    /\ UNCHANGED <<ops, vlen, vcap, odas, vlock, vpoison>>

\* push, growing: capacity.mutate reads capacity
NCapGet(t) ==
    /\ UNCHANGED <<cellVars, hashVars>>
    /\ pc[t] = "c_get"
    /\ NGoto(t, "c_set", [loc[t] EXCEPT !.cap = vcap])
    /\ UNCHANGED <<ops, vecVars>>

\* push, growing: capacity.mutate stores capacity + 1 or capacity * 2
NCapSet(t) ==
    /\ UNCHANGED <<cellVars, hashVars>>
    /\ pc[t] = "c_set"
    /\ vcap' = GrowCapacity(loc[t].cap)
    /\ NGoto(t, "l_len", loc[t])
    /\ UNCHANGED <<ops, vlen, varr, odas, vlock, vpoison>>

\* push: len.mutate reads len
NLenGet(t) ==
    /\ UNCHANGED <<cellVars, hashVars>>
    /\ pc[t] = "l_len"
    /\ NGoto(t, "l_arr", [loc[t] EXCEPT !.len = vlen])
    /\ UNCHANGED <<ops, vecVars>>

\* push: the closure indexes (**self.array.get())[len]
NLenArr(t) ==
    /\ UNCHANGED <<cellVars, hashVars>>
    /\ pc[t] = "l_arr"
    /\ IF loc[t].len >= Len(varr)
       THEN Panicked(t, "push", 0, loc[t].val,
                     PanicOf("index out of bounds", Len(varr), loc[t].len))
       ELSE NGoto(t, "l_slot", [loc[t] EXCEPT !.slot = varr[loc[t].len + 1]])
    /\ UNCHANGED <<ops, vecVars>>

\* push: the closure sets the slot
NLenSlot(t) ==
    /\ UNCHANGED <<cellVars, hashVars>>
    /\ pc[t] = "l_slot"
    /\ odas' = OdaSet(odas, loc[t].slot, loc[t].val)
    /\ NGoto(t, "l_set", loc[t])
    /\ UNCHANGED <<ops, vlen, vcap, varr, vlock, vpoison>>

\* push: len.mutate stores len + 1
NLenSet(t) ==
    /\ UNCHANGED <<cellVars, hashVars>>
    /\ pc[t] = "l_set"
    /\ vlen' = loc[t].len + 1
    /\ Returned(t, "push", 0, loc[t].val, None, None)
    /\ UNCHANGED <<ops, vcap, varr, odas, vlock, vpoison>>

\* A rebuild that drops no slot
NaiveKeepAll(array, index) == array

\* remove: [first, second].concat() after the two split_at calls
NaiveRemoveAt(array, index) ==
    SubSeq(array, 1, index) \o SubSeq(array, index + 2, Len(array))

\* remove: array.mutate reads the array and the closure splits it at index
NRemArrGet(t, i) ==
    /\ UNCHANGED <<cellVars, hashVars>>
    /\ pc[t] = "idle"
    /\ ops' = ops + 1
    /\ IF i >= Len(varr)
       THEN Panicked(t, "remove", i, 0, PanicOf("mid > len", Len(varr), i))
       ELSE NGoto(t, "r_slot", [VIdleLoc EXCEPT !.op = "remove", !.idx = i, !.arr = varr,
                                                !.slot = varr[i + 1]])
    /\ UNCHANGED <<vecVars, hashVars>>

\* remove: removed = removed_ele[0].get(), and the array without that slot
NRemSlot(t) ==
    /\ UNCHANGED <<cellVars, hashVars>>
    /\ pc[t] = "r_slot"
    /\ NGoto(t, "r_set", [loc[t] EXCEPT !.removed = odas[loc[t].slot],
                                       !.arr = NaiveRemoveAt(@, loc[t].idx)])
    /\ UNCHANGED <<ops, vecVars>>

\* remove: array.mutate stores the shorter array; nothing more when the slot
\* was empty
NRemArrSet(t) ==
    /\ UNCHANGED <<cellVars, hashVars>>
    /\ pc[t] = "r_set"
    /\ varr' = loc[t].arr
    /\ IF loc[t].removed = None
       THEN Returned(t, "remove", loc[t].idx, 0, None, None)
       ELSE NGoto(t, "r_len", loc[t])
    /\ UNCHANGED <<ops, vlen, vcap, odas, vlock, vpoison>>

\* remove: len.mutate reads len
NRemLenGet(t) ==
    /\ UNCHANGED <<cellVars, hashVars>>
    /\ pc[t] = "r_len"
    /\ NGoto(t, "r_lset", [loc[t] EXCEPT !.len = vlen])
    /\ UNCHANGED <<ops, vecVars>>

\* remove: len.mutate stores len - 1
NRemLenSet(t) ==
    /\ UNCHANGED <<cellVars, hashVars>>
    /\ pc[t] = "r_lset"
    /\ \E wraps \in BOOLEAN :
         IF loc[t].len = 0 /\ ~wraps
         THEN /\ Panicked(t, "remove", loc[t].idx, 0,
                          PanicOf("attempt to subtract with overflow", 0, loc[t].idx))
              /\ UNCHANGED vlen
         ELSE /\ vlen' = IF loc[t].len = 0 THEN UsizeMax ELSE loc[t].len - 1
              /\ NGoto(t, "r_cap", loc[t])
    /\ UNCHANGED <<ops, vcap, varr, odas, vlock, vpoison>>

\* remove: *self.capacity.get() of the test capacity - len < len
NRemCapRead(t) ==
    /\ UNCHANGED <<cellVars, hashVars>>
    /\ pc[t] = "r_cap"
    /\ NGoto(t, "r_sub", [loc[t] EXCEPT !.cap = vcap])
    /\ UNCHANGED <<ops, vecVars>>

\* remove: the first *self.len.get() of the test, and the subtraction
NRemLenSub(t) ==
    /\ UNCHANGED <<cellVars, hashVars>>
    /\ pc[t] = "r_sub"
    /\ \E wraps \in BOOLEAN :
         IF loc[t].cap < vlen /\ ~wraps
         THEN Panicked(t, "remove", loc[t].idx, 0,
                       PanicOf("attempt to subtract with overflow", vlen, loc[t].idx))
         ELSE NGoto(t, "r_cmp", [loc[t] EXCEPT !.len = IF loc[t].cap < vlen THEN UsizeMax
                                                       ELSE loc[t].cap - vlen])
    /\ UNCHANGED <<ops, vecVars>>

\* remove: the second *self.len.get() of the test decides the halving
NRemLenCmp(t) ==
    /\ UNCHANGED <<cellVars, hashVars>>
    /\ pc[t] = "r_cmp"
    /\ IF loc[t].len < vlen
       THEN NGoto(t, "r_cget", loc[t])
       ELSE Returned(t, "remove", loc[t].idx, 0, loc[t].removed, None)
    /\ UNCHANGED <<ops, vecVars>>

\* remove: capacity.mutate reads capacity
NRemCapGet(t) ==
    /\ UNCHANGED <<cellVars, hashVars>>
    /\ pc[t] = "r_cget"
    /\ NGoto(t, "r_cset", [loc[t] EXCEPT !.cap = vcap])
    /\ UNCHANGED <<ops, vecVars>>

\* remove: capacity.mutate stores capacity >> 1
NRemCapSet(t) ==
    /\ UNCHANGED <<cellVars, hashVars>>
    /\ pc[t] = "r_cset"
    /\ vcap' = loc[t].cap \div 2
    /\ Returned(t, "remove", loc[t].idx, 0, loc[t].removed, None)
    /\ UNCHANGED <<ops, vlen, varr, odas, vlock, vpoison>>

NaivePushStep(t) ==
    \/ NPushCap(t)
    \/ NGrowArrGet(t)
    \/ NGrowCapGet(t)
    \/ NGrowArrSet(t)
    \/ NCapGet(t)
    \/ NCapSet(t)
    \/ NLenGet(t)
    \/ NLenArr(t)
    \/ NLenSlot(t)
    \/ NLenSet(t)

NaiveRemoveStep(t) ==
    \/ NRemSlot(t)
    \/ NRemArrSet(t)
    \/ NRemLenGet(t)
    \/ NRemLenSet(t)
    \/ NRemCapRead(t)
    \/ NRemLenSub(t)
    \/ NRemLenCmp(t)
    \/ NRemCapGet(t)
    \/ NRemCapSet(t)

(***************************************************************************)
(* SpecNaive: encounter_race_condition.  The main thread pushes onto a new *)
(* naive CellVec, spawns a thread that removes through a clone, and goes   *)
(* on pushing.                                                             *)
(***************************************************************************)
NaivePopulate == 3

MaxNaivePushes == 4

MaxNaiveRemoves == 1

Remover == 2

InitNaive ==
    /\ VecNew
    /\ HashNew
    /\ CellsUnused
    /\ pc = [t \in {Main, Remover} |-> IF t = Main THEN "idle" ELSE "unspawned"]
    /\ loc = [t \in {Main, Remover} |-> VIdleLoc]
    /\ res = [t \in {Main, Remover} |-> VNoRes]
    /\ ops = 0

NaiveSpawn ==
    /\ pc[Main] = "idle"
    /\ res[Main].n = NaivePopulate
    /\ pc[Remover] = "unspawned"
    /\ pc' = [pc EXCEPT ![Remover] = "idle"]
    /\ UNCHANGED <<loc, res, ops>>
    /\ UNCHANGED <<vecVars, hashVars>>
    /\ UNCHANGED <<cellVars, hashVars>>

NaivePush ==
    /\ res[Main].n < MaxNaivePushes
    /\ res[Main].n = NaivePopulate => pc[Remover] # "unspawned"
    /\ NPushLen(Main, 0)

NaiveRemove ==
    /\ res[Remover].n < MaxNaiveRemoves
    /\ \E i \in Indices : NRemArrGet(Remover, i)

NextNaive ==
    \/ NaivePush
    \/ NaiveSpawn
    \/ NaiveRemove
    \/ NaivePushStep(Main)
    \/ NaiveRemoveStep(Remover)

SpecNaive == InitNaive /\ [][NextNaive]_vars

\* Three pushes, then the fourth push of the main thread against one
\* remove(2) of the spawned thread.
NaiveRemovePush ==
    /\ pc[Remover] # "unspawned"
    /\ res[Main].n = NaivePopulate
    /\ res[Remover].n + (IF pc[Remover] \in {"idle", "panicked"} THEN 0 ELSE 1) <= 1
    /\ CallOf(Remover).op = "remove" => CallOf(Remover).idx = 2

\* The remove has stored the array it rebuilt.
NaiveRemoveStored ==
    \/ pc[Remover] \in {"r_len", "r_lset", "r_cap", "r_sub", "r_cmp", "r_cget", "r_cset"}
    \/ pc[Remover] = "idle" /\ res[Remover].n = 1

\* C7: in the naive CellVec, from length 3 / capacity 4, once remove(2) has
\* stored its shorter array a push that has read length 3 is about to index
\* slot 3 of a storage of 3 slots, and a push that fails fails with index
\* out of bounds, len 3, index 3.
NaivePushIndexesPastStorage ==
    NaiveRemovePush =>
        /\ ops = NaivePopulate => (vlen = 3 /\ vcap = 4 /\ Len(varr) = 4)
        /\ (pc[Main] = "l_arr" /\ loc[Main].len = 3 /\ NaiveRemoveStored) => Len(varr) = 3
        /\ pc[Main] = "panicked" =>
               res[Main].panic = PanicOf("index out of bounds", 3, 3)

\* The push has failed with index out of bounds, len 3, index 3.
NaivePushPanicked ==
    /\ NaiveRemovePush
    /\ pc[Main] = "panicked"
    /\ res[Main].op = "push"
    /\ res[Main].panic = PanicOf("index out of bounds", 3, 3)
    /\ Len(varr) = 3
    /\ vcap = 4

(***************************************************************************)
(* SpecVecPR: one thread calling push and remove on a new CellVec, every   *)
(* call running to completion before the next.                             *)
(***************************************************************************)
MaxPRCalls == 7

VecPRCall(t) ==
    /\ ops < MaxPRCalls
    /\ \/ \E i \in Indices : VInBounds(t, "remove", i, 0)
       \/ \E v \in Values : VPush(t, v)

NextVecPR ==
    \/ VecPRCall(1)
    \/ VIb2(1)
    \/ VecLmStep(1)

SpecVecPR == InitVecSeq /\ [][NextVecPR]_vars

\* What get(index) reads from a CellVec with these fields: the snapshot in
\* the slot at the index, absent outside the length or the storage.
ValueAt(len, array, od, index) ==
    IF index < len /\ index < Len(array) THEN od[array[index + 1]] ELSE None

\* thread t is at the closure of the transform of op
InClosure(t, op) == pc[t] = "body" /\ loc[t].op = op

\* C11: after any sequence of completed push and remove calls on a new
\* CellVec, the closure of push(v) ends without panic, length is one more
\* than before, and the last position within the length holds v.
PushAppends ==
    [][InClosure(1, "push") =>
         /\ pc'[1] = "drop"
         /\ vlen' = vlen + 1
         /\ ValueAt(vlen', varr', odas', vlen' - 1) = Some(loc[1].val)]_vars

(***************************************************************************)
(* Properties of single calls on a CellVec used by one thread (SpecVecSeq, *)
(* SpecVecPR): what a call returns and what it changes, stated on the step *)
(* that returns or writes.                                                 *)
(***************************************************************************)

\* this step belongs to a call of op by thread t
During(t, op) == loc[t].op = op \/ loc'[t].op = op

\* thread t ends its call of op with this step
Ends(t, op) == loc[t].op = op /\ pc'[t] \in {"idle", "panicked"}

\* set is at the write through the slot it looked up
AtSetWrite(t) == pc[t] = "slot" /\ loc[t].op = "set"

\* the positions a call can tell apart
Positions == 0..(Len(varr) + 1)

\* C12: get(i) returns what position i holds, absent for i >= length, and
\* changes nothing; what a position holds changes only by a push, which
\* puts its value at position length, by a set on that position, which puts
\* its value there, or by a remove at or before it.
IndexLaw ==
    [][/\ Ends(1, "get") =>
            /\ pc'[1] = "idle"
            /\ res'[1].ret = ValueAt(vlen, varr, odas, loc[1].idx)
            /\ loc[1].idx >= vlen => res'[1].ret = None
       /\ During(1, "get") => UNCHANGED <<vlen, vcap, varr, odas>>
       /\ \A i \in Positions :
            ValueAt(vlen', varr', odas', i) # ValueAt(vlen, varr, odas, i) =>
                \/ /\ InClosure(1, "push")
                   /\ i = vlen
                   /\ ValueAt(vlen', varr', odas', i) = Some(loc[1].val)
                \/ /\ AtSetWrite(1)
                   /\ i = loc[1].idx
                   /\ ValueAt(vlen', varr', odas', i) = Some(loc[1].val)
                \/ /\ InClosure(1, "remove")
                   /\ i >= loc[1].idx]_vars

\* a get returned the snapshot of a position past the first, the first
\* position holding another value
GetReadPosition ==
    /\ res[1].op = "get"
    /\ res[1].idx > 0
    /\ res[1].ret # None
    /\ res[1].ret # ValueAt(vlen, varr, odas, 0)

\* C13: remove(i) with i < length returns the snapshot position i held,
\* length goes down by one, positions before i keep what they held, every
\* position from i up to the new length holds what the next one held, and
\* the position at the new length is absent.
RemoveShifts ==
    [][/\ InClosure(1, "remove") =>
            /\ pc'[1] = "drop"
            /\ loc[1].idx < vlen
            /\ loc'[1].removed = ValueAt(vlen, varr, odas, loc[1].idx)
            /\ loc'[1].removed # None
            /\ vlen' = vlen - 1
            /\ \A j \in Positions :
                 ValueAt(vlen', varr', odas', j) =
                    IF j < loc[1].idx THEN ValueAt(vlen, varr, odas, j)
                    ELSE IF j < vlen' THEN ValueAt(vlen, varr, odas, j + 1)
                    ELSE None
       /\ (Ends(1, "remove") /\ pc[1] = "drop") =>
            /\ pc'[1] = "idle"
            /\ res'[1].err = None
            /\ res'[1].ret = loc[1].removed
            /\ UNCHANGED <<vlen, vcap, varr, odas>>]_vars

\* a remove returned the snapshot of a position with others behind it, one
\* of which now holds another value
RemoveFromMiddle ==
    /\ res[1].op = "remove"
    /\ res[1].ret # None
    /\ res[1].idx < vlen
    /\ ValueAt(vlen, varr, odas, res[1].idx) # res[1].ret

(***************************************************************************)
(* SpecVecPush: one thread that only pushes onto a new CellVec, as         *)
(* tests::grows and populate do.                                           *)
(***************************************************************************)
MaxPushes == 9

VecPushCall(t) ==
    /\ ops < MaxPushes
    /\ \E v \in Values : VPush(t, v)

NextVecPush ==
    \/ VecPushCall(1)
    \/ VecLmStep(1)

SpecVecPush == InitVecSeq /\ [][NextVecPush]_vars

RECURSIVE PowerOfTwoFrom(_, _)
PowerOfTwoFrom(p, n) == IF p >= n THEN p ELSE PowerOfTwoFrom(2 * p, n)

\* the smallest power of two that is at least n
NextPowerOfTwo(n) == PowerOfTwoFrom(1, n)

\* the capacities tests::grows and the growth law list for pushes 1..9
GrowsTo == <<1, 2, 4, 4, 8, 8, 8, 8, 16>>

\* C14: pushing onto a new CellVec and nothing else, a push doubles
\* capacity exactly when length equals capacity before it (0 becomes 1),
\* and capacity after the n-th push is the smallest power of two >= n:
\* 1, 2, 4, 4, 8, 8, 8, 8, 16.
GrowthLaw ==
    [][InClosure(1, "push") =>
         /\ pc'[1] = "drop"
         /\ vlen' = vlen + 1
         /\ vcap' = IF vlen = vcap
                    THEN (IF vcap = 0 THEN 1 ELSE 2 * vcap)
                    ELSE vcap
         /\ vcap' = NextPowerOfTwo(vlen')
         /\ vlen' <= Len(GrowsTo) => vcap' = GrowsTo[vlen']]_vars

\* the ninth push returned with capacity 16
NinthPushGrew ==
    /\ pc[1] = "idle"
    /\ res[1].op = "push"
    /\ res[1].n = 9
    /\ vlen = 9
    /\ vcap = 16

(***************************************************************************)
(* SpecVecShrink: one thread pushing Data::default() and removing at any   *)
(* index, as tests::shirnks does after populate(5).                        *)
(***************************************************************************)
MaxShrinkCalls == 10

VecShrinkCall(t) ==
    /\ ops < MaxShrinkCalls
    /\ \/ \E i \in Indices : VInBounds(t, "remove", i, 0)
       \/ VPush(t, 0)

NextVecShrink ==
    \/ VecShrinkCall(1)
    \/ VIb2(1)
    \/ VecLmStep(1)

SpecVecShrink == InitVecSeq /\ [][NextVecShrink]_vars

\* <<length, capacity>> of tests::shirnks: populate(5), then five removes
ShrinksTo == << <<5, 8>>, <<4, 4>>, <<3, 4>>, <<2, 2>>, <<1, 1>>, <<0, 0>> >>

\* C15: the closure of remove halves capacity exactly when capacity >> 1 >=
\* length after the decrement, no other step of a remove changes capacity,
\* and from length 5 / capacity 8 successive removes give capacities
\* 4, 4, 2, 1, 0 as length goes 4, 3, 2, 1, 0.
ShrinkLaw ==
    [][/\ InClosure(1, "remove") =>
            /\ vlen' = vlen - 1
            /\ vcap' = IF vcap \div 2 >= vlen' THEN vcap \div 2 ELSE vcap
            /\ \A k \in 1..(Len(ShrinksTo) - 1) :
                 <<vlen, vcap>> = ShrinksTo[k] => <<vlen', vcap'>> = ShrinksTo[k + 1]
       /\ (During(1, "remove") /\ ~InClosure(1, "remove")) => vcap' = vcap]_vars

\* five pushes and five removes returned, the last a remove(0) that left
\* length 0, capacity 0 and three of the eight slots
ShrunkToNothing ==
    /\ pc[1] = "idle"
    /\ res[1].op = "remove"
    /\ res[1].idx = 0
    /\ res[1].ret # None
    /\ res[1].n = 10
    /\ vlen = 0
    /\ vcap = 0
    /\ Len(varr) = 3

\* the call thread t returned from last was a remove or a set that found
\* its index out of bounds
LastOutOfBounds(t) ==
    \/ res[t].op = "remove" /\ res[t].err # None
    \/ res[t].op = "set" /\ res[t].ret = None

\* C16: remove(index) and set(index, v) with index >= length return the
\* out-of-bounds result (remove: OutOfBounds with the index and max_bound =
\* length, set: absent) without panicking, leave length, capacity, the
\* storage and every slot as they were and poison nothing; a get or remove
\* called next does not panic and, once past its bounds check, returns a
\* value.
OutOfBoundsRefused ==
    [][/\ \A op \in {"remove", "set"} :
            /\ (pc[1] = "idle" /\ loc'[1].op = op /\ loc'[1].idx >= vlen) =>
                 /\ pc'[1] = "ib2"
                 /\ UNCHANGED <<vlen, vcap, varr, odas, vpoison, vlock>>
            /\ (pc[1] = "ib2" /\ loc[1].op = op) =>
                 /\ loc[1].idx >= vlen
                 /\ pc'[1] = "idle"
                 /\ res'[1].ret = None
                 /\ res'[1].err = IF op = "remove"
                                  THEN Some(<<loc[1].idx, vlen>>) ELSE None
                 /\ UNCHANGED <<vlen, vcap, varr, odas, vpoison, vlock>>
       /\ (LastOutOfBounds(1) /\ (During(1, "get") \/ During(1, "remove"))) =>
            /\ pc'[1] # "panicked"
            /\ (pc[1] \in {"slot", "drop"} /\ pc'[1] = "idle") =>
                 res'[1].ret # None]_vars

\* after an out-of-bounds remove or set on a CellVec that holds values, a
\* remove within bounds is about to return what it removed
InBoundsAfterOutOfBounds ==
    /\ LastOutOfBounds(1)
    /\ pc[1] = "drop"
    /\ loc[1].op = "remove"
    /\ loc[1].removed # None
    /\ vlen > 0

HIdleLoc == [op |-> "none", key |-> 0, val |-> 0, node |-> 0, old |-> 0,
             cursor |-> None, seen |-> {}, root |-> 0, coll |-> <<>>, before |-> <<>>,
             chain |-> <<>>]
HNoRes == [op |-> "none", key |-> 0, val |-> 0, ret |-> None, n |-> 0]

\* An entry that takes key 0 whatever key it is given
CellEntryKeyless(key, arc) == [key |-> 0, value |-> arc, next |-> None]

\* CellEntry::new(key, value) around the Arc that Da::new made for the value
CellEntryNew(key, arc) == [key |-> key, value |-> arc, next |-> None]

HReturned(t, ret) ==
    /\ pc' = [pc EXCEPT ![t] = "idle"]
    /\ res' = [res EXCEPT ![t] = [op |-> loc[t].op, key |-> loc[t].key,
                                  val |-> loc[t].val, ret |-> ret, n |-> @.n + 1]]
    /\ loc' = [loc EXCEPT ![t] = HIdleLoc]
    /\ puts' = IF loc[t].op = "put"
               THEN [puts EXCEPT ![loc[t].key] = Some(loc[t].val)]
               ELSE puts

\* what get would return for the key if it ran alone on these chains
NeverReturns == Some(-1)

RECURSIVE Follow(_, _, _, _, _)
Follow(e, h, node, key, seen) ==
    IF node \in seen THEN NeverReturns
    ELSE IF e[node].key = key THEN Some(h[e[node].value])
    ELSE IF IsSome(e[node].next)
    THEN Follow(e, h, e[node].next[1], key, seen \cup {node})
    ELSE None

Held(b, e, h, key) ==
    LET root == BucketAt(b, Position(key))
    IN  IF IsSome(root) THEN Follow(e, h, root[1], key, {}) ELSE None

\* the entries next leads through from node, in order; an entry met a second
\* time ends the sequence and is in it twice
RECURSIVE ChainSeq(_, _, _)
ChainSeq(e, node, seq) ==
    IF \E i \in DOMAIN seq : seq[i] = node THEN Append(seq, node)
    ELSE IF IsSome(e[node].next)
    THEN ChainSeq(e, e[node].next[1], Append(seq, node))
    ELSE Append(seq, node)

\* the chain of the bucket at a position, from its root
BucketSeq(b, e, position) ==
    LET root == BucketAt(b, position)
    IN  IF IsSome(root) THEN ChainSeq(e, root[1], <<>>) ELSE <<>>

\* no entry is in the chain twice: the chain ends
Acyclic(seq) == \A i, j \in DOMAIN seq : seq[i] = seq[j] => i = j

\* put(key, value), get(key) and remove(key) up to the position:
\* hash_key(..) % 256.  A remove remembers what the table held.
HCall(t, op, key, v) ==
    /\ UNCHANGED <<cellVars, vecVars, hashVars>>
    /\ pc[t] = "idle"
    /\ ops' = ops + 1
    /\ pc' = [pc EXCEPT ![t] = "root"]
    /\ loc' = [loc EXCEPT ![t] =
                 [HIdleLoc EXCEPT !.op = op, !.key = key, !.val = v,
                                  !.before = IF op = "remove"
                                             THEN [k \in Keys |-> Held(buckets, entries, heap, k)]
                                             ELSE <<>>,
                                  !.chain = IF op = "remove"
                                            THEN BucketSeq(buckets, entries, Position(key))
                                            ELSE <<>>]]
    /\ UNCHANGED res

\* self.array.get().as_ref()[position].get()
HRoot(t) ==
    /\ UNCHANGED <<cellVars, vecVars, ops, buckets, entries>>
    /\ pc[t] = "root"
    /\ LET root == BucketAt(buckets, Position(loc[t].key))
       IN  IF IsSome(root) /\ loc[t].op = "remove"
           THEN /\ pc' = [pc EXCEPT ![t] = "iter"]
                /\ loc' = [loc EXCEPT ![t].cursor = root]
                /\ UNCHANGED <<res, puts>>
           ELSE IF IsSome(root)
           THEN /\ pc' = [pc EXCEPT ![t] = "next"]
                /\ loc' = [loc EXCEPT ![t].node = root[1]]
                /\ UNCHANGED <<res, puts>>
           ELSE IF loc[t].op = "put"
           THEN /\ pc' = [pc EXCEPT ![t] = "rootset"]
                /\ UNCHANGED <<loc, res, puts>>
           ELSE HReturned(t, None)

\* put on an empty position: array[position].set(CellEntry::new(key, value))
HRootSet(t) ==
    /\ UNCHANGED <<cur, mutex, reg, snaps, lmlog, vecVars, ops>>
    /\ pc[t] = "rootset"
    /\ LET a == ArcNew(heap, None, loc[t].val)
       IN  /\ heap' = a.heap
           /\ entries' = Append(entries, CellEntryNew(loc[t].key, a.ref))
           /\ buckets' = (Position(loc[t].key) :> Some(Len(entries) + 1)) @@ buckets
    /\ HReturned(t, None)

\* A comparison that takes every key for the one looked for
KeyEqAny(a, b) == TRUE

\* self.key == entry.key, self.key == *key
KeyEq(a, b) == a = b

\* CellEntry::set and CellEntry::get: match (self.key == key, self.next.get())
HNext(t) ==
    /\ UNCHANGED <<cellVars, vecVars, ops, buckets, entries>>
    /\ pc[t] = "next"
    /\ LET self == entries[loc[t].node]
       IN  IF KeyEq(self.key, loc[t].key)
           THEN /\ pc' = [pc EXCEPT ![t] = "valget"]
                /\ UNCHANGED <<loc, res, puts>>
           ELSE IF loc[t].op = "put"
           THEN /\ pc' = [pc EXCEPT ![t] = IF IsSome(self.next) THEN "next2" ELSE "nextset"]
                /\ UNCHANGED <<loc, res, puts>>
           ELSE IF IsSome(self.next)
           THEN /\ loc' = [loc EXCEPT ![t].node = self.next[1]]
                /\ UNCHANGED <<pc, res, puts>>
           ELSE HReturned(t, None)

\* CellEntry::set, (false, Some(_)): self.next.get().and_then(|value| value.set(entry))
HNext2(t) ==
    /\ UNCHANGED <<cellVars, vecVars, ops, buckets, entries>>
    /\ pc[t] = "next2"
    /\ LET next == entries[loc[t].node].next
       IN  IF IsSome(next)
           THEN /\ pc' = [pc EXCEPT ![t] = "next"]
                /\ loc' = [loc EXCEPT ![t].node = next[1]]
                /\ UNCHANGED <<res, puts>>
           ELSE HReturned(t, None)

\* CellEntry::set, (false, None): self.next.set(entry)
HNextSet(t) ==
    /\ UNCHANGED <<cur, mutex, reg, snaps, lmlog, vecVars, ops, buckets>>
    /\ pc[t] = "nextset"
    /\ LET a == ArcNew(heap, None, loc[t].val)
       IN  /\ heap' = a.heap
           /\ entries' = [Append(entries, CellEntryNew(loc[t].key, a.ref))
                             EXCEPT ![loc[t].node].next = Some(Len(entries) + 1)]
    /\ HReturned(t, None)

\* The key matched.  get: cell_entry.value.get(), the snapshot it returns;
\* CellEntry::set: (*self.value.get()).clone(), the value of the entry it
\* will return.
HValGet(t) ==
    /\ UNCHANGED <<heap, cur, mutex, reg, lmlog, vecVars, ops, buckets, entries>>
    /\ pc[t] = "valget"
    /\ LET arc == entries[loc[t].node].value
       IN  IF loc[t].op = "get"
           THEN /\ snaps' = snaps \cup Snap(loc[t].key, Some(arc))
                /\ HReturned(t, Some(arc))
           ELSE /\ pc' = [pc EXCEPT ![t] = "valset"]
                /\ loc' = [loc EXCEPT ![t].old = heap[arc]]
                /\ UNCHANGED <<res, puts, snaps>>

\* CellEntry::set, (true, _): self.value.set(..); put returns the value of
\* the entry it got back
HValSet(t) ==
    /\ UNCHANGED <<cur, mutex, reg, snaps, lmlog, vecVars, ops, buckets>>
    /\ pc[t] = "valset"
    /\ LET a == ArcNew(heap, Some(entries[loc[t].node].value), loc[t].val)
       IN  /\ heap' = a.heap
           /\ entries' = [entries EXCEPT ![loc[t].node].value = a.ref]
    /\ HReturned(t, Some(loc[t].old))

(***************************************************************************)
(* CellHashMap::remove (hash.rs 70-114).  The iterator over a CellEntry    *)
(* that remove filters and collects is not part of the crate (hash.rs      *)
(* 127-152 is commented out); it is taken to walk the chain from the root  *)
(* of the position, reading one next cell for every entry it yields.       *)
(***************************************************************************)

\* .filter(|entry| entry.key != key), iter.next() and `for entry in iter`:
\* the next entry of the chain is pulled and kept unless its key matches;
\* the first one kept is root, the others go to collection.  A chain that
\* leads back into itself is never pulled to its end.
HIter(t) ==
    /\ UNCHANGED <<cellVars, vecVars, ops, buckets, entries>>
    /\ pc[t] = "iter"
    /\ LET n == loc[t].cursor[1]
           keep == ~KeyEq(entries[n].key, loc[t].key)
           root == IF keep /\ loc[t].root = 0 THEN n ELSE loc[t].root
           coll == IF keep /\ loc[t].root # 0 THEN Append(loc[t].coll, n) ELSE loc[t].coll
           next == entries[n].next
       IN  IF n \in loc[t].seen
           THEN /\ pc' = [pc EXCEPT ![t] = "diverged"]
                /\ UNCHANGED <<loc, res, puts>>
           ELSE IF IsSome(next)
           THEN /\ loc' = [loc EXCEPT ![t].cursor = next, ![t].seen = @ \cup {n},
                                      ![t].root = root, ![t].coll = coll]
                /\ UNCHANGED <<pc, res, puts>>
           ELSE IF root = 0
           THEN HReturned(t, None)
           ELSE /\ pc' = [pc EXCEPT ![t] = IF coll = <<>> THEN "bucketset" ELSE "relink"]
                /\ loc' = [loc EXCEPT ![t].cursor = None, ![t].seen = @ \cup {n},
                                      ![t].root = root, ![t].coll = coll]
                /\ UNCHANGED <<res, puts>>

\* collection.reverse(); for entry in collection { entry.next.replace(root);
\* root = entry; }
HRelink(t) ==
    /\ UNCHANGED <<cellVars, vecVars, ops, buckets, res, puts>>
    /\ pc[t] = "relink"
    /\ LET entry == loc[t].coll[Len(loc[t].coll)]
       IN  /\ entries' = [entries EXCEPT ![entry].next = Some(loc[t].root)]
           /\ loc' = [loc EXCEPT ![t].root = entry,
                                 ![t].coll = SubSeq(@, 1, Len(@) - 1)]
           /\ pc' = [pc EXCEPT ![t] = IF Len(loc[t].coll) = 1 THEN "bucketset" ELSE "relink"]

\* self.array.mutate(|array| { array[position].replace(root); array })
HBucketSet(t) ==
    /\ UNCHANGED <<cellVars, vecVars, ops, entries>>
    /\ pc[t] = "bucketset"
    /\ buckets' = (Position(loc[t].key) :> Some(loc[t].root)) @@ buckets
    /\ HReturned(t, None)

HashRemoveStep(t) ==
    \/ HIter(t)
    \/ HRelink(t)
    \/ HBucketSet(t)

HashStep(t) ==
    \/ HRoot(t)
    \/ HRootSet(t)
    \/ HNext(t)
    \/ HNext2(t)
    \/ HNextSet(t)
    \/ HValGet(t)
    \/ HValSet(t)

(***************************************************************************)
(* SpecHashSeq: one thread calling put and get on a new CellHashMap, every *)
(* call running to completion before the next.                             *)
(***************************************************************************)
MaxHashOps == 4

InitHashSeq ==
    /\ HashNew
    /\ VecNew
    /\ CellsUnused
    /\ pc = [t \in {1} |-> "idle"]
    /\ loc = [t \in {1} |-> HIdleLoc]
    /\ res = [t \in {1} |-> HNoRes]
    /\ ops = 0

HashSeqCall(t) ==
    /\ ops < MaxHashOps
    /\ \E k \in Keys :
         \/ \E v \in Values : HCall(t, "put", k, v)
         \/ HCall(t, "get", k, 0)

NextHashSeq ==
    \/ HashSeqCall(1)
    \/ HashStep(1)

SpecHashSeq == InitHashSeq /\ [][NextHashSeq]_vars

(***************************************************************************)
(* Properties of CellHashMap used by one thread (SpecHashSeq).             *)
(***************************************************************************)

\* the first entry with the key in the chain that starts at node, if any
RECURSIVE ChainFind(_, _, _)
ChainFind(e, node, key) ==
    IF e[node].key = key THEN Some(node)
    ELSE IF IsSome(e[node].next) THEN ChainFind(e, e[node].next[1], key)
    ELSE None

\* the value a table with these buckets, entries and Arcs holds for the key
Stored(b, e, h, key) ==
    LET root == BucketAt(b, Position(key))
        found == IF IsSome(root) THEN ChainFind(e, root[1], key) ELSE None
    IN  IF IsSome(found) THEN Some(h[e[found[1]].value]) ELSE None

\* put is at the write of the value of the entry whose key matched
AtOverwrite(t) == pc[t] = "valset"

\* get is at the read of the value of the entry whose key matched
AtGetValue(t) == pc[t] = "valget" /\ loc[t].op = "get"

\* C18: a put(k, v2) that finds k, last put with v1, returns v1; the table
\* then holds v2 for k, a get(k) returns a snapshot of the value last put,
\* and every snapshot a get handed out before still holds the value it held
\* then, the snapshots of k taken since the put of v1 holding v1.
OverwriteReturnsPrevious ==
    [][/\ AtOverwrite(1) =>
            /\ puts[loc[1].key] # None
            /\ res'[1].ret = puts[loc[1].key]
            /\ Stored(buckets', entries', heap', loc[1].key) = Some(loc[1].val)
            /\ \A s \in snaps :
                 /\ heap'[s.arc] = s.val
                 /\ s.arc = entries[loc[1].node].value => Some(s.val) = res'[1].ret
       /\ AtGetValue(1) =>
            /\ res'[1].ret # None
            /\ Some(heap[res'[1].ret[1]]) = puts[loc[1].key]]_vars

\* a put returned the value it replaced, another than the one it put, and
\* a snapshot that a get of the key handed out before still holds the
\* replaced value
SnapshotOutlivesPut ==
    /\ res[1].op = "put"
    /\ res[1].ret # None
    /\ res[1].ret # Some(res[1].val)
    /\ Stored(buckets, entries, heap, res[1].key) = Some(res[1].val)
    /\ \E s \in snaps : s.c = res[1].key /\ Some(s.val) = res[1].ret
                         /\ heap[s.arc] = s.val

\* how far down the chain that starts at node the key is, 0 if nowhere
RECURSIVE ChainDepth(_, _, _)
ChainDepth(e, node, key) ==
    IF e[node].key = key THEN 1
    ELSE IF ~IsSome(e[node].next) THEN 0
    ELSE LET below == ChainDepth(e, e[node].next[1], key)
         IN  IF below = 0 THEN 0 ELSE below + 1

\* C19: put(k, v) returns a value exactly when the table held k before the
\* call, wherever in its chain; a put that returns absent, having found its
\* position empty or having reached the end of the chain, leaves the table
\* holding v for k.
PutReturnsPresence ==
    [][(loc[1].op = "put" /\ pc'[1] = "idle") =>
         /\ IsSome(res'[1].ret) <=> IsSome(Stored(buckets, entries, heap, loc[1].key))
         /\ IsSome(res'[1].ret) <=> IsSome(puts[loc[1].key])
         /\ ~IsSome(res'[1].ret) =>
              /\ pc[1] \in {"rootset", "nextset"}
              /\ Stored(buckets', entries', heap', loc[1].key) = Some(loc[1].val)]_vars

\* a put returned the value of a key it found third in its chain
PutFoundThird ==
    /\ res[1].op = "put"
    /\ res[1].ret # None
    /\ IsSome(BucketAt(buckets, Position(res[1].key)))
    /\ ChainDepth(entries, BucketAt(buckets, Position(res[1].key))[1], res[1].key) = 3

\* C20: after any puts, keys sharing a position or not, the table holds for
\* every key the value last put for it and nothing for a key never put, and
\* get(k) returns a snapshot of that value, absent for a key never put.
CollidingKeysRetrievable ==
    [][/\ pc'[1] = "idle" =>
            \A k \in Keys : Stored(buckets', entries', heap', k) = puts'[k]
       /\ (loc[1].op = "get" /\ pc'[1] = "idle") =>
            /\ IsSome(res'[1].ret) <=> IsSome(puts[loc[1].key])
            /\ IsSome(res'[1].ret) => Some(heap[res'[1].ret[1]]) = puts[loc[1].key]
            /\ UNCHANGED <<buckets, entries, heap, puts>>]_vars

\* a get returned the value of the key third in a chain, the first of the
\* chain holding another value
GetFoundThird ==
    /\ res[1].op = "get"
    /\ res[1].ret # None
    /\ IsSome(BucketAt(buckets, Position(res[1].key)))
    /\ ChainDepth(entries, BucketAt(buckets, Position(res[1].key))[1], res[1].key) = 3
    /\ heap[entries[BucketAt(buckets, Position(res[1].key))[1]].value] # heap[res[1].ret[1]]

(***************************************************************************)
(* SpecHashRem: one thread calling put, get and remove on a new            *)
(* CellHashMap, every call running to completion before the next.          *)
(***************************************************************************)
MaxRemOps == 4

HashRemCall(t) ==
    /\ ops < MaxRemOps
    /\ \E k \in Keys :
         \/ \E v \in Values : HCall(t, "put", k, v)
         \/ HCall(t, "get", k, 0)
         \/ HCall(t, "remove", k, 0)

NextHashRem ==
    \/ HashRemCall(1)
    \/ HashStep(1)
    \/ HashRemoveStep(1)

SpecHashRem == InitHashSeq /\ [][NextHashRem]_vars

(***************************************************************************)
(* Properties of CellHashMap::remove used by one thread (SpecHashRem).     *)
(***************************************************************************)

\* thread t is inside remove(k) and the table held k when it was called
RemovingPresent(t) ==
    loc[t].op = "remove" /\ IsSome(loc[t].before[loc[t].key])

\* thread t is inside remove(k) and the table did not hold k when it was called
RemovingAbsent(t) ==
    loc[t].op = "remove" /\ loc[t].before[loc[t].key] = None

\* C21: remove(k) with k in the table returns, after it get(k) is absent,
\* and every other key, before or behind k in the same chain or elsewhere,
\* is held with the value it had.
RemoveDeletes ==
    [][RemovingPresent(1) =>
         /\ pc'[1] # "diverged"
         /\ pc'[1] = "idle" =>
              /\ Held(buckets', entries', heap', loc[1].key) = None
              /\ \A k \in Keys \ {loc[1].key} :
                   Held(buckets', entries', heap', k) = loc[1].before[k]]_vars


\* C22: a remove of a key that is not in the table returns without an error,
\* and none of its steps changes a bucket or an entry's next cell, so every
\* chain and the result of every get stay what they were.
RemoveAbsentNoOp ==
    [][RemovingAbsent(1) =>
         /\ pc'[1] \notin {"diverged", "panicked"}
         /\ buckets' = buckets
         /\ entries' = entries
         /\ \A k \in Keys :
              Held(buckets', entries', heap', k) = Held(buckets, entries, heap, k)]_vars

(***************************************************************************)
(* SpecHashPar: two threads calling put on one new CellHashMap, each with  *)
(* keys of its own, all of them of one position; a call of one thread      *)
(* runs between any two steps of the other.                                *)
(***************************************************************************)
MaxParOps == 3

HashPutters == {1, 2}

\* the keys a thread puts: distinct from the other thread's, same position
OwnKeys(t) == IF t = 1 THEN {1} ELSE {2, 3}

InitHashPar ==
    /\ HashNew
    /\ VecNew
    /\ CellsUnused
    /\ pc = [t \in HashPutters |-> "idle"]
    /\ loc = [t \in HashPutters |-> HIdleLoc]
    /\ res = [t \in HashPutters |-> HNoRes]
    /\ ops = 0

HashParCall(t) ==
    /\ ops < MaxParOps
    /\ \E k \in OwnKeys(t) : \E v \in Values : HCall(t, "put", k, v)

NextHashPar ==
    \E t \in HashPutters :
        \/ HashParCall(t)
        \/ HashStep(t)

SpecHashPar == InitHashPar /\ [][NextHashPar]_vars

\* no call is running
Quiescent == \A t \in DOMAIN pc : pc[t] = "idle"

\* C23: puts of distinct keys of one bucket that run concurrently each take
\* effect as one step: once all of them have returned, get of every key put
\* returns the value last put for it, whether the bucket was empty or not
\* when they started.
NoInsertLost ==
    Quiescent =>
        \A k \in Keys :
            IsSome(puts[k]) => Held(buckets, entries, heap, k) = puts[k]


(***************************************************************************)
(* SpecHashMix: two threads calling put and remove on one new CellHashMap  *)
(* with any keys, their steps interleaved.                                 *)
(***************************************************************************)
MaxMixOps == 4

HashMixCall(t) ==
    /\ ops < MaxMixOps
    /\ \E k \in Keys :
         \/ HCall(t, "put", k, 0)
         \/ HCall(t, "remove", k, 0)

NextHashMix ==
    \E t \in HashPutters :
        \/ HashMixCall(t)
        \/ HashStep(t)
        \/ HashRemoveStep(t)

SpecHashMix == InitHashPar /\ [][NextHashMix]_vars

\* the entries of the chain that starts at node, each taken once
RECURSIVE ChainNodes(_, _, _)
ChainNodes(e, node, seen) ==
    IF node \in seen THEN seen
    ELSE IF IsSome(e[node].next)
    THEN ChainNodes(e, e[node].next[1], seen \cup {node})
    ELSE seen \cup {node}

\* the entries of the bucket at a position
BucketNodes(b, e, position) ==
    LET root == BucketAt(b, position)
    IN  IF IsSome(root) THEN ChainNodes(e, root[1], {}) ELSE {}

LmOrders == {<<1, 2>>, <<2, 1>>}

NextLMOrder ==
    \E t \in Threads :
        \/ \E cells \in LmOrders : LmStartOn(t, cells)
        \/ LmLock(t)
        \/ LmCall(t)
        \/ LmWrite(t)
        \/ LmDrop(t)

SpecLMOrder == InitLM /\ [][NextLMOrder]_vars

\* thread t holds the guard of the first cell it listed and is at the lock
\* of the second, whose guard thread u holds
LmWaitsFor(t, u) ==
    /\ pc[t] = "lm_lock"
    /\ loc[t].k = 1
    /\ mutex[Handle(t, loc[t].cells[1])] = t
    /\ mutex[Handle(t, loc[t].cells[2])] = u

\* two calls that listed the same cells in opposite orders wait for each other
LmDeadlocked(t, u) ==
    /\ t # u
    /\ LmWaitsFor(t, u)
    /\ LmWaitsFor(u, t)

\* C25: two locking_mutate! calls that list the same two cells in opposite
\* orders can each take their first lock and then wait for the other's; from
\* then on no step of any thread releases either lock or moves either call:
\* the macro neither detects the cycle nor backs out of it.
LmDeadlockStays ==
    [][\A t, u \in Threads :
           LmDeadlocked(t, u) =>
               /\ LmDeadlocked(t, u)'
               /\ pc'[t] = pc[t] /\ loc'[t] = loc[t]
               /\ pc'[u] = pc[u] /\ loc'[u] = loc[u]]_vars

\* Two calls are in the deadlock, neither has called func, and the cells
\* hold what they held before.
LmDeadlockReached ==
    \E t, u \in Threads :
        /\ LmDeadlocked(t, u)
        /\ loc[t].cells # loc[u].cells
        /\ lmlog = <<>>
        /\ \A c \in CellIds : reg[c].n = 0


(***************************************************************************)
(* SpecLMOne: one thread calling locking_mutate! over the Da and the Oda,  *)
(* one call at a time, the cells listed in either order; the cells start   *)
(* with the values of the tests da_lock and oda_lock or with any values,   *)
(* the Oda possibly empty.                                                 *)
(***************************************************************************)
InitLMOne ==
    /\ \/ InitCells(1, Some(2))
       \/ \E a \in Values : \E ob \in {None} \cup {Some(b) : b \in Values} : InitCells(a, ob)
    /\ pc = [t \in {1} |-> "idle"]
    /\ loc = [t \in {1} |-> IdleLoc]
    /\ res = [t \in {1} |-> NoRes]
    /\ ops = 0
    /\ VecNew
    /\ HashNew

NextLMOne ==
    \/ \E cells \in LmOrders : LmStartOn(1, cells)
    \/ LmLock(1)
    \/ LmCall(1)
    \/ LmWrite(1)
    \/ LmDrop(1)

SpecLMOne == InitLMOne /\ [][NextLMOne]_vars

\* what the function of the tests returns for one value
PlusOne(o) == IF IsSome(o) THEN Some(o[1] + 1) ELSE None

\* C26: a locking_mutate! over a Da and an Oda listed in any order calls the
\* function once, with the values the cells held when their locks were taken,
\* and when it returns the i-th listed cell holds the i-th result: each cell
\* its own value plus one, an empty Oda still empty.
LmOnceInOrder ==
    [][(/\ (pc[1] = "lm_call" /\ pc'[1] # "lm_call") =>
             /\ Len(lmlog') = Len(lmlog) + 1
             /\ \A i \in DOMAIN loc[1].cells :
                    /\ mutex[Handle(1, loc[1].cells[i])] = 1
                    /\ lmlog'[Len(lmlog')][i] = reg[loc[1].cells[i]].val
        /\ (pc[1] = "lm_drop" /\ pc'[1] = "idle") =>
             /\ Len(lmlog) = loc[1].c + 1
             /\ \A i \in DOMAIN loc[1].cells :
                    /\ ValOf(heap', cur'[Handle(1, loc[1].cells[i])])
                           = PlusOne(lmlog[Len(lmlog)][i])
                    /\ mutex'[Handle(1, loc[1].cells[i])] = Free)]_vars

\* The run of the tests da_lock and oda_lock: the cells held 1 and 2, one
\* call was made, and they now hold 2 and 3.
LmTestRun ==
    /\ pc[1] = "idle"
    /\ lmlog \in {<<<<Some(1), Some(2)>>>>, <<<<Some(2), Some(1)>>>>}
    /\ res[1].op = "lm"
    /\ ValOf(heap, cur[Handle(1, 1)]) = Some(2)
    /\ ValOf(heap, cur[Handle(1, 2)]) = Some(3)


(***************************************************************************)
(* SpecOdaOps: threads sharing clones of the Oda and calling get, set,      *)
(* replace and empty, each of which is one locking of the cell.            *)
(***************************************************************************)
NextOdaOps ==
    \E t \in Threads : \E c \in OdaCells :
        \/ Get(t, c)
        \/ \E v \in Values : Set(t, c, v)
        \/ \E o \in {None} \cup {Some(a) : a \in 1..Len(heap)} : Replace(t, c, o)
        \/ Empty(t, c)

SpecOdaOps == Init /\ [][NextOdaOps]_vars

\* the step is a return of the operation op by thread t
Returns(t, op) == res'[t] # res[t] /\ res'[t].op = op

\* C27: empty reads and clears the slot in one step: it returns the very Arc
\* the slot held when it became empty, which holds the last value stored
\* through any clone, and whatever set, replace or empty of other threads
\* run around it, a step that takes a stored Arc out of a slot is either an
\* empty that returns that Arc or a replace that installs another content.
EmptyTakes ==
    [][\A t \in Threads :
           /\ Returns(t, "empty") =>
                LET s == Handle(t, res'[t].c)
                IN  /\ res'[t].ret = cur[s]
                    /\ cur'[s] = None
                    /\ ValOf(heap, res'[t].ret) = reg[res'[t].c].val
           /\ \A c \in OdaCells :
                (IsSome(cur[Handle(t, c)]) /\ cur'[Handle(t, c)] = None) =>
                    \E u \in Threads :
                        \/ Returns(u, "empty") /\ res'[u].ret = cur[Handle(t, c)]
                        \/ Returns(u, "replace")]_vars

\* An empty returned the value another thread had just set, a later empty
\* of a third call found the slot empty.
EmptyTookOthersSet ==
    \E t, u \in Threads :
        /\ t # u
        /\ res[t].op = "empty" /\ IsSome(res[t].ret)
        /\ res[u].op = "set" /\ res[u].c = res[t].c
        /\ res[t].at = res[u].at + 1
        /\ ValOf(heap, res[t].ret) = res[u].lin
        /\ cur[Handle(t, res[t].c)] = None


(***************************************************************************)
(* SpecShare: one thread with two cells, a and b, that hands the snapshot  *)
(* one get returned to replace or to acquire of the other cell, as the     *)
(* tests replace and acquire do, and calls set.                            *)
(***************************************************************************)
InitShare ==
    /\ \E a \in Values : \E ob \in {None} \cup {Some(b) : b \in Values} : InitCells(a, ob)
    /\ pc = [t \in {1} |-> "idle"]
    /\ loc = [t \in {1} |-> IdleLoc]
    /\ res = [t \in {1} |-> NoRes]
    /\ ops = 0
    /\ VecNew
    /\ HashNew

NextShare ==
    \E c \in CellIds :
        \/ Get(1, c)
        \/ \E v \in Values : Set(1, c, v)
        \/ \E o \in {None} \cup {Some(a) : a \in 1..Len(heap)} : Replace(1, c, o)
        \/ \E o \in {Some(a) : a \in 1..Len(heap)} : Acquire(1, c, o)

SpecShare == InitShare /\ [][NextShare]_vars

\* cells a and b hold the same Arc
Shared(a, b) == a # b /\ IsSome(cur[Handle(1, a)]) /\ cur[Handle(1, a)] = cur[Handle(1, b)]

\* C28: replace and acquire install the very Arc they are given, so after
\* b.replace(a.get()) or b = acquire(a.get()) the two cells return the same
\* snapshot; a set on a then gives a an Arc of its own with the new value,
\* and b still returns the shared snapshot, its value untouched.
ReplaceShares ==
    [][\A a, b \in CellIds :
           /\ ((Returns(1, "replace") \/ Returns(1, "acquire")) /\ res'[1].c = b) =>
                /\ cur'[Handle(1, b)] = res'[1].arg
                /\ (a # b /\ res'[1].arg = cur[Handle(1, a)]) =>
                       /\ cur'[Handle(1, a)] = cur'[Handle(1, b)]
                       /\ ValOf(heap', cur'[Handle(1, a)]) = ValOf(heap, cur[Handle(1, a)])
           /\ (Shared(a, b) /\ Returns(1, "set") /\ res'[1].c = a) =>
                /\ cur'[Handle(1, b)] = cur[Handle(1, b)]
                /\ ValOf(heap', cur'[Handle(1, b)]) = ValOf(heap, cur[Handle(1, b)])
                /\ cur'[Handle(1, a)] # cur[Handle(1, a)]
                /\ ValOf(heap', cur'[Handle(1, a)]) = res'[1].lin]_vars

\* The end of the tests replace and acquire: b was given a's snapshot, a was
\* set to another value since, and b still returns the snapshot with the
\* value a had.
SharedSnapshotKept ==
    \E a, b \in CellIds : \E s \in snaps :
        /\ a # b
        /\ s.c = a
        /\ cur[Handle(1, b)] = Some(s.arc)
        /\ heap[s.arc] = s.val
        /\ res[1].op = "set" /\ res[1].c = a
        /\ cur[Handle(1, a)] # cur[Handle(1, b)]
        /\ ValOf(heap, cur[Handle(1, a)]) # Some(s.val)
        /\ reg[b].val = Some(s.val)


(***************************************************************************)
(* SpecOdaMut: threads sharing clones of the Oda and calling mutate, set,  *)
(* empty and get on it.                                                    *)
(***************************************************************************)
NextOdaMut ==
    \E t \in Threads : \E c \in OdaCells :
        \/ Get(t, c)
        \/ \E v \in Values : Set(t, c, v)
        \/ Empty(t, c)
        \/ MutateRead(t, c)
        \/ MutateWrite(t)

SpecOdaMut == Init /\ [][NextOdaMut]_vars

\* C29: a mutate that finds the Oda empty returns at once: the function is
\* not called, nothing is written, no error is raised and the slot is still
\* empty; the only mutate that calls the function and writes its result
\* back is one that read a value.
MutateAbsentNoOp ==
    [][\A t \in Threads :
           /\ Returns(t, "mutate_none") =>
                /\ cur[Handle(t, res'[t].c)] = None
                /\ pc[t] = "idle" /\ pc'[t] = "idle"
                /\ UNCHANGED <<heap, cur, mutex, reg>>
           /\ pc'[t] = "mutate_f" => loc'[t].old # None
           /\ Returns(t, "mutate") =>
                /\ pc[t] = "mutate_f"
                /\ loc[t].old # None
                /\ ValOf(heap', cur'[Handle(t, res'[t].c)])
                       = Some(Func(heap[loc[t].old[1]]))]_vars

\* A mutate found the slot empty after another thread's empty took the
\* value out, and left it empty.
MutateFoundEmptied ==
    \E t, u \in Threads :
        /\ t # u
        /\ res[t].op = "mutate_none"
        /\ res[u].op = "empty" /\ IsSome(res[u].ret) /\ res[u].c = res[t].c
        /\ res[t].at = res[u].at
        /\ cur[Handle(t, res[t].c)] = None


(***************************************************************************)
(* SpecMutPair: two threads with clones of the cells, each calling         *)
(* mutate(x -> x + 1) once, on the same cell or on different ones.         *)
(***************************************************************************)
MutPair == {1, 2}

InitMutPair ==
    /\ \E a \in Values : \E ob \in {None} \cup {Some(b) : b \in Values} : InitCells(a, ob)
    /\ pc = [t \in MutPair |-> "idle"]
    /\ loc = [t \in MutPair |-> IdleLoc]
    /\ res = [t \in MutPair |-> NoRes]
    /\ ops = 0
    /\ VecNew
    /\ HashNew

NextMutPair ==
    \E t \in MutPair :
        \/ \E c \in CellIds : res[t].op = "none" /\ MutateRead(t, c)
        \/ MutateWrite(t)

SpecMutPair == InitMutPair /\ [][NextMutPair]_vars

\* both threads have returned from a mutate that read a value in cell c
BothMutated(c) ==
    \A t \in MutPair : res[t].op = "mutate" /\ res[t].c = c

\* C30: after two concurrent mutate(x -> x + 1) on a cell that held n the
\* cell holds n + 1 or n + 2, never anything else: n + 1, one update lost,
\* exactly when both calls read n before either wrote back, and n + 2 when
\* one call read what the other had written.
MutatePairResult ==
    \A c \in CellIds :
        BothMutated(c) =>
            LET n == heap[c]
                final == ValOf(heap, cur[Handle(1, c)])
            IN  /\ final \in {Some(n + 1), Some(n + 2)}
                /\ final = Some(n + 1) <=> res[1].rd = res[2].rd
                /\ reg[c].n = 2

\* The lost update: both calls read n, both wrote n + 1.
MutateLostUpdate ==
    \E c \in CellIds :
        /\ BothMutated(c)
        /\ res[1].lin = Some(heap[c]) /\ res[2].lin = Some(heap[c])
        /\ ValOf(heap, cur[Handle(1, c)]) = Some(heap[c] + 1)
        /\ ValOf(heap, cur[Handle(2, c)]) = Some(heap[c] + 1)


(***************************************************************************)
(* Calls made by the function given to mutate, on the cell being mutated,  *)
(* through the handle of thread t or the clone another thread u would use  *)
(* (tests::race_condition, mod.rs 409-449): get, set, and a mutate whose   *)
(* own function is d.num += 1.  They run in thread t while it is inside    *)
(* func.                                                                   *)
(***************************************************************************)
InFunc(t) == pc[t] = "mutate_f" /\ ops < MaxOps

FGet(t, u) ==
    /\ UNCHANGED <<vecVars, hashVars>>
    /\ InFunc(t)
    /\ Unlocked(Handle(u, loc[t].c))
    /\ snaps' = snaps \cup Snap(loc[t].c, cur[Handle(u, loc[t].c)])
    /\ ops' = ops + 1
    /\ UNCHANGED <<heap, cur, mutex, pc, loc, res, reg, lmlog>>

FSet(t, u, v) ==
    /\ UNCHANGED <<vecVars, hashVars>>
    /\ InFunc(t)
    /\ Unlocked(Handle(u, loc[t].c))
    /\ LET a == ArcNew(heap, cur[Handle(u, loc[t].c)], v) IN
        /\ heap' = a.heap
        /\ cur' = [cur EXCEPT ![Handle(u, loc[t].c)] = Some(a.ref)]
        /\ reg' = Wrote(loc[t].c, Some(a.ref), a.heap)
    /\ res' = [res EXCEPT ![t] = [NoRes EXCEPT !.op = "set", !.c = loc[t].c, !.lin = Some(v),
                                                !.at = reg'[loc[t].c].n]]
    /\ ops' = ops + 1
    /\ UNCHANGED <<mutex, pc, loc, snaps, lmlog>>

\* the self.get() of the mutate that func calls
FMutateRead(t, u) ==
    /\ UNCHANGED <<vecVars, hashVars>>
    /\ InFunc(t)
    /\ Unlocked(Handle(u, loc[t].c))
    /\ snaps' = snaps \cup Snap(loc[t].c, cur[Handle(u, loc[t].c)])
    /\ ops' = ops + 1
    /\ IF IfLetSome(cur[Handle(u, loc[t].c)])
       THEN /\ pc' = [pc EXCEPT ![t] = "mutate_ff"]
            /\ loc' = [loc EXCEPT ![t].inner = cur[Handle(u, loc[t].c)], ![t].vals = <<u>>]
       ELSE UNCHANGED <<pc, loc>>
    /\ mutex' = GuardOfGet(mutex, Handle(u, loc[t].c), t)
    /\ UNCHANGED <<heap, cur, res, reg, lmlog>>

\* its self.set(mutated_value), after which func goes on
FMutateWrite(t) ==
    /\ UNCHANGED <<vecVars, hashVars>>
    /\ pc[t] = "mutate_ff"
    /\ LET u == loc[t].vals[1]
           s == Handle(u, loc[t].c)
           a == ArcNew(heap, cur[s], Func(heap[loc[t].inner[1]]))
       IN  /\ Unlocked(s)
           /\ heap' = a.heap
           /\ cur' = [cur EXCEPT ![s] = Some(a.ref)]
           /\ reg' = Wrote(loc[t].c, Some(a.ref), a.heap)
    /\ pc' = [pc EXCEPT ![t] = "mutate_f"]
    /\ loc' = [loc EXCEPT ![t].inner = None, ![t].vals = <<>>]
    /\ UNCHANGED <<mutex, ops, res, snaps, lmlog>>

(***************************************************************************)
(* SpecMutF: one thread calling mutate on the Da or the Oda with a         *)
(* function that itself calls get, set and mutate on the same cell.        *)
(***************************************************************************)
NextMutF ==
    \/ \E c \in CellIds : MutateRead(1, c)
    \/ \E u \in Threads : FGet(1, u)
    \/ \E u \in Threads : \E v \in Values : FSet(1, u, v)
    \/ \E u \in Threads : FMutateRead(1, u)
    \/ FMutateWrite(1)
    \/ MutateWrite(1)

SpecMutF == InitShare /\ [][NextMutF]_vars

\* C31: between its read and its write-back, while func runs, mutate holds
\* no lock: the cell's lock is free for a get, set or mutate that func makes
\* on the same cell through any handle, and for the write-back itself, so
\* the mutate can always go on to return.
MutateHoldsNoLock ==
    (pc[1] \in {"mutate_f", "mutate_ff"}) =>
        /\ \A s \in Slots : mutex[s] # 1
        /\ \A u \in Threads : Unlocked(Handle(u, loc[1].c))
        /\ pc[1] = "mutate_f" => ENABLED MutateWrite(1)
        /\ pc[1] = "mutate_ff" => ENABLED FMutateWrite(1)

\* A mutate has returned whose function set the cell and ran a mutate of
\* its own on it; the cell holds func of the value first read.
MutateReturnedAfterCalls ==
    /\ pc[1] = "idle"
    /\ res[1].op = "mutate"
    /\ res[1].at = res[1].rd + 3
    /\ ValOf(heap, cur[Handle(1, res[1].c)]) = Some(Func(res[1].lin[1]))


\* C32: locking_mutate! takes the locks of the listed cells one by one in
\* the order listed, so a call that holds k guards holds those of the first
\* k cells and no other; func is called, and its results are written back,
\* with all of them held, and no guard is given up before the last result
\* has been written.
LmLocksInOrder ==
    \A t \in Threads :
        /\ pc[t] = "lm_lock" =>
               \A i \in DOMAIN loc[t].cells :
                   mutex[Handle(t, loc[t].cells[i])] = t <=> i <= loc[t].k
        /\ pc[t] \in {"lm_call", "lm_write"} =>
               \A i \in DOMAIN loc[t].cells : mutex[Handle(t, loc[t].cells[i])] = t
        /\ pc[t] \notin {"lm_lock", "lm_call", "lm_write", "lm_drop"} =>
               \A s \in Slots : mutex[s] # t

\* A call that listed the Oda before the Da has written the Oda's result
\* and not yet the Da's, holding both guards, while another call waits for
\* its first lock.
LmHalfWrittenHoldsAll ==
    \E t \in Threads : \E u \in Threads \ {t} :
        /\ pc[t] = "lm_write" /\ loc[t].k = 1 /\ loc[t].cells = <<2, 1>>
        /\ mutex[Handle(t, 1)] = t /\ mutex[Handle(t, 2)] = t
        /\ reg[2].n = 1 /\ reg[1].n = 0
        /\ pc[u] = "lm_lock" /\ loc[u].k = 0


(***************************************************************************)
(* SpecFair: threads calling get, set, mutate and locking_mutate! on        *)
(* clones of the two cells, every locking_mutate! listing the cells in the *)
(* same order (LmCells), with a function that touches no cell.  A thread   *)
(* that is inside a call is scheduled again and again, and a thread        *)
(* waiting for a Mutex that is free again and again gets it.               *)
(***************************************************************************)
NextFair ==
    \E t \in Threads :
        \/ \E c \in CellIds : Get(t, c)
        \/ \E c \in CellIds : \E v \in Values : Set(t, c, v)
        \/ \E c \in CellIds : MutateRead(t, c)
        \/ MutateWrite(t)
        \/ LmStart(t)
        \/ LmLock(t)
        \/ LmCall(t)
        \/ LmWrite(t)
        \/ LmDrop(t)

Fairness ==
    \A t \in Threads :
        /\ SF_vars(MutateWrite(t))
        /\ SF_vars(LmLock(t))
        /\ WF_vars(LmCall(t))
        /\ WF_vars(LmWrite(t))
        /\ WF_vars(LmDrop(t))

SpecFair == Init /\ [][NextFair]_vars /\ Fairness

LmLists == {<<1>>, <<2>>, <<1, 2>>, <<2, 1>>, <<1, 1>>, <<2, 2>>}

FOps == {"get", "set", "mutate"}

\* the mark of a Mutex whose guard was dropped by a panicking thread
PoisonMark == NThreads + 1

\* Mutex::lock called by the thread that holds the guard: std leaves the
\* behaviour unspecified but for not returning; the call blocks for ever or
\* panics, and the unwinding drops the guards of the thread and poisons
\* their Mutexes.
Relock(t, s) ==
    /\ mutex[s] = t
    /\ ~LockReturns(s, t)
    /\ \/ /\ pc' = [pc EXCEPT ![t] = "relock_blocked"]
          /\ mutex' = mutex
       \/ /\ pc' = [pc EXCEPT ![t] = "relock_panicked"]
          /\ mutex' = [x \in Slots |-> IF mutex[x] = t THEN PoisonMark ELSE mutex[x]]
    /\ loc' = [loc EXCEPT ![t].inner = Some(s)]

\* line 94, a listed handle whose slot an earlier listed handle has locked
LmRelock(t) ==
    /\ UNCHANGED <<vecVars, hashVars>>
    /\ pc[t] = "lm_lock"
    /\ Relock(t, Handle(t, NextToLock(loc[t].cells, loc[t].k)))
    /\ UNCHANGED <<heap, cur, ops, res, reg, snaps, lmlog>>

\* what a get, a set(v) or a mutate(d.num += 1) leaves in the slot
FWritten(op, o, v) ==
    IF op = "get" \/ (op = "mutate" /\ ~IsSome(o)) THEN None
    ELSE IF op = "set" THEN Some(v) ELSE Some(Func(heap[o[1]]))

\* lines 97-103: func, running with every listed guard alive, calls get,
\* set or mutate on cell u
LmFCall(t, op, u, v) ==
    /\ UNCHANGED <<vecVars, hashVars>>
    /\ pc[t] = "lm_call"
    /\ ops < MaxOps
    /\ LET s == Handle(t, u)
           w == FWritten(op, cur[s], v)
           a == ArcNew(heap, cur[s], IF IsSome(w) THEN w[1] ELSE 0)
       IN  \/ /\ LockReturns(s, t)
              /\ IF IsSome(w)
                 THEN /\ heap' = a.heap
                      /\ cur' = [cur EXCEPT ![s] = Some(a.ref)]
                      /\ reg' = Wrote(u, Some(a.ref), a.heap)
                 ELSE UNCHANGED <<heap, cur, reg>>
              /\ snaps' = IF op = "set" THEN snaps ELSE snaps \cup Snap(u, cur[s])
              /\ loc' = [loc EXCEPT ![t].called = @ \cup {u}]
              /\ UNCHANGED <<mutex, pc>>
           \/ /\ Relock(t, s)
              /\ UNCHANGED <<heap, cur, reg, snaps>>
    /\ ops' = ops + 1
    /\ UNCHANGED <<res, lmlog>>

(***************************************************************************)
(* SpecLMSelf: one thread, one locking_mutate! at a time over any list of  *)
(* one or two handles of the Da and the Oda, its function calling get, set *)
(* or mutate on either cell.                                               *)
(***************************************************************************)
NextLMSelf ==
    \/ \E cells \in LmLists : LmStartOn(1, cells)
    \/ LmLock(1)
    \/ LmRelock(1)
    \/ \E op \in FOps : \E u \in CellIds : \E v \in Values : LmFCall(1, op, u, v)
    \/ LmCall(1)
    \/ LmWrite(1)
    \/ LmDrop(1)

SpecLMSelf == InitLMOne /\ [][NextLMSelf]_vars

\* the listed handles of the call of thread t
Listed(t) == {loc[t].cells[i] : i \in DOMAIN loc[t].cells}

\* two listed handles alias one slot
Aliased(t) ==
    \E i, j \in DOMAIN loc[t].cells :
        i # j /\ Handle(t, loc[t].cells[i]) = Handle(t, loc[t].cells[j])

\* the call of thread t is in its write-back or beyond
LmPastFunc(t) == pc[t] \in {"lm_write", "lm_drop"}

\* C34: a locking_mutate! in which two listed handles alias the same slot,
\* or whose function calls get, set or mutate on a listed cell, never
\* completes: no call gets past its function with aliasing handles or with a
\* nested call on a listed cell made; the lock it then asks for is one it
\* holds itself, and the call stays blocked on it for ever or, where the
\* Mutex detects the second lock, panics and never resumes.
SelfLockNeverReturns ==
    [][\A t \in DOMAIN pc :
        (/\ LmPastFunc(t) => ~Aliased(t) /\ loc[t].called \cap Listed(t) = {}
         /\ pc[t] = "relock_blocked" => mutex[loc[t].inner[1]] = t
         /\ pc[t] \in {"relock_blocked", "relock_panicked"} =>
                /\ pc'[t] = pc[t]
                /\ Aliased(t) \/ Handle(t, loc[t].inner[1]) \in {Handle(t, c) : c \in Listed(t)})]_vars

\* The call is blocked on the clone of its first handle, holding the lock.
LmBlockedOnAlias ==
    /\ pc[1] = "relock_blocked"
    /\ Aliased(1)
    /\ loc[1].k = 1
    /\ mutex[Handle(1, loc[1].cells[2])] = 1

\* The call is blocked inside its function, which called on a listed cell.
LmBlockedInFunc ==
    /\ pc[1] = "relock_blocked"
    /\ ~Aliased(1)
    /\ loc[1].k = Len(loc[1].cells)
    /\ mutex[loc[1].inner[1]] = 1

\* C34 as stated: such a call only ever blocks.
SelfLockOnlyBlocks == \A t \in DOMAIN pc : pc[t] # "relock_panicked"

(***************************************************************************)
(* get running beside remove or push (vec.rs 88-96): the bounds check, the *)
(* read of the array and the read of the slot are three separate steps,    *)
(* each under its own lock, and a remove or push may complete in between.  *)
(***************************************************************************)
\* C35: a get(index) running concurrently with remove or push returns
\* absent or a snapshot; it never panics with an index out of range or with
\* the "Expected value inside array bounds" assertion.
GetNeverPanics ==
    \A t \in DOMAIN pc : res[t].op = "get" =>
            res[t].panic.kind \notin {"index out of bounds", "Expected value inside array bounds"}

\* both workers have ended a remove of the last valid index of the array
\* the main thread populated
BothRemovedLast ==
    /\ res[Main].n >= 1
    /\ \A t \in PairWorkers :
           res[t].op = "remove" /\ res[t].idx = res[Main].n - 1 /\ pc[t] \in {"idle", "panicked"}

\* C36: of two concurrent remove(i) calls, i the last valid index, exactly
\* one returns the element and the other returns OutOfBounds; neither
\* panics, and the array is left as the successful call left it, one
\* element shorter.
RemovePairOneWins ==
    BothRemovedLast =>
        /\ \A t \in PairWorkers : res[t].panic = NoPanic
        /\ \E t \in PairWorkers : \E u \in PairWorkers \ {t} :
               /\ res[t].ret # None /\ res[t].err = None
               /\ res[u].ret = None /\ res[u].err # None
        /\ vlen = res[Main].n - 1

\* C37: every OutOfBounds{index, max_bound} error that CellVec returns has
\* index >= max_bound, also when push or remove calls run concurrently with
\* the bounds check.
OutOfBoundsIndexPastBound ==
    \A t \in DOMAIN pc :
        (res[t].op = "remove" /\ res[t].err # None) => res[t].err[1][1] >= res[t].err[1][2]

(***************************************************************************)
(* The iterator of CellVec (vec.rs 43-57, 175-195).  into_iter moves the   *)
(* CellVec into the iterator with index 0; clones made before share its    *)
(* three cells.  The index field of the iterator is res[It].val, the       *)
(* content of the handle Da::acquire(value) makes is res[It].ret.          *)
(***************************************************************************)
It == 2

MaxIterOps == 6

\* An iterator that forgets to advance
IndexKept(index) == index

\* self.index += 1
IndexAfter(index) == index + 1

\* next(): self.cell_vec.get(self.index), then Da::acquire on what it found
\* and self.index += 1 once the get has returned
ItNext(t) ==
    /\ ops < MaxIterOps
    /\ \A u \in DOMAIN pc : pc[u] = "idle"
    /\ VInBounds(t, "next", res[t].val, IndexAfter(res[t].val))

\* a call through a clone of the CellVec, between two next() calls
ItOtherCall(t) ==
    /\ ops < MaxIterOps
    /\ \A u \in DOMAIN pc : pc[u] = "idle"
    /\ \/ \E v \in Values : VPush(t, v)
       \/ \E i \in Indices : VInBounds(t, "remove", i, 0)
       \/ \E i \in Indices : \E v \in Values : VInBounds(t, "set", i, v)

(***************************************************************************)
(* SpecVecIter: one thread holding an iterator over a CellVec and a clone  *)
(* of the CellVec; it pushes, removes and sets through the clone and calls *)
(* next() on the iterator, one call at a time in any order.                *)
(***************************************************************************)
InitVecIter == InitVecThreads({It})

NextVecIter ==
    \/ ItOtherCall(Main)
    \/ ItNext(It)
    \/ VecStep(Main)
    \/ VecStep(It)

SpecVecIter == InitVecIter /\ [][NextVecIter]_vars

\* C38: the k-th next() call, k = 0, 1, 2, ..., asks for index k and yields
\* a handle holding the element at index k of the array as it is at that
\* call, or None when k is not below the length at that call; so on an
\* array that is not modified it yields elements 0..length-1 in index order
\* and then None.
NextYieldsKth ==
    [][Ends(It, "next") =>
          (/\ pc'[It] = "idle"
           /\ loc[It].idx = res[It].n
           /\ res'[It].ret = ValueAt(vlen, varr, odas, res[It].n)
           /\ res[It].n >= vlen <=> res'[It].ret = None
           /\ res'[It].val = res[It].n + 1)]_vars

\* The iterator has yielded both elements of a two-element array, the last
\* one just now, and the next call will return None.
IterYieldedAll ==
    /\ pc[It] = "idle"
    /\ res[It].op = "next"
    /\ res[It].n = 2
    /\ vlen = 2
    /\ res[It].idx = 1
    /\ res[It].ret = odas[varr[2]]
    /\ res[It].ret # odas[varr[1]]

\* The iterator returned None at the first index not below the length.
IterEnded ==
    /\ pc[It] = "idle"
    /\ res[It].op = "next"
    /\ res[It].ret = None
    /\ res[It].idx = vlen
    /\ vlen >= 2

\* C39: after remove(k) on a bucket whose chain has two or more entries the
\* chain is finite and acyclic, holds exactly the entries whose key differs
\* from k, in the order they had, and remove itself comes to an end; a get
\* or put that follows next through such a chain terminates.
RemoveRebuildsChain ==
    [][(loc[1].op = "remove" /\ Len(loc[1].chain) >= 2 /\ Acyclic(loc[1].chain)) =>
          (/\ pc'[1] # "diverged"
           /\ pc'[1] = "idle" =>
                LET after == BucketSeq(buckets', entries', Position(loc[1].key))
                    kept(n) == ~KeyEq(entries[n].key, loc[1].key)
                IN  /\ Acyclic(after)
                    /\ after = SelectSeq(loc[1].chain, kept))]_vars


====
